---- MODULE Spec2Model ----
(***************************************************************************)
(* PresalesTracker (src/script.js): the in-memory entity store of          *)
(* opportunities and tasks, its persistence to localStorage, the undo      *)
(* stack, the selection sets and the handlers that mutate them.            *)
(*                                                                         *)
(* Abstractions.  An opportunity keeps the fields id, name, stage, status, *)
(* dealValue, probability, bant and the four derived fields; the other     *)
(* descriptive fields (client, industry, ...) are copied from the form     *)
(* exactly like name and are left out.  A task keeps id, opportunityId,    *)
(* taskName, dueDate and status.  Ids are naturals: the n-th id issued by  *)
(* a generator is n.  Amounts that JavaScript keeps as doubles are kept    *)
(* exactly: expectedRevenue is held in hundredths.                         *)
(***************************************************************************)
EXTENDS Integers, Sequences, FiniteSets, TLC

(***************************************************************************)
(* Program constants.                                                      *)
(***************************************************************************)
DATA_VERSION == 2
HOT == 80
WARM == 55
MAX_BANT_SCORE == 20
MAX_UNDO_STACK == 10
\* debounce(renderOpportunities, 300), debounce(renderTasks, 300)
DebounceDelay == 300

\* null, the value of currentEditingOpportunity / currentEditingTask when
\* no record is being edited (ids are 1, 2, ... and therefore truthy).
NULL == 0

\* The NaN that parseFloat / parseInt return for an empty form field.
NaN == -1

\* undefined, what Array.prototype.find returns when nothing matches.
Undefined == [undefined |-> TRUE]

\* JSON.stringify writes an undefined array element as null.
Null == [null |-> TRUE]

(***************************************************************************)
(* Bounds of the model.                                                    *)
(***************************************************************************)
\* how many ids generateOpportunityID / generateTaskID issue in a session
MaxOppIds == 2
MaxTaskIds == 2
\* the delete handlers are not run once the undo stack holds this many
\* actions (SpecUndo fills the stack to MAX_UNDO_STACK and beyond)
MaxUndoDepth == 2
\* undo is not run when it would make a collection longer than this
MaxRecords == 2
\* SpecUndo issues this many ids beyond MAX_UNDO_STACK
MaxEvictions == 2
\* SpecCalendar opens the calendar on at most this many tasks
MaxCalendarTasks == 4
\* SpecSearch follows bursts of at most this many input events
MaxBurst == 3

(***************************************************************************)
(* Sequence helpers (Array.prototype.filter / find / findIndex / push).    *)
(***************************************************************************)
\* Array.prototype.findIndex with the test "element.id === id": the first
\* matching index, 0 when there is none (JavaScript's -1).
findIndex(s, id) ==
    IF \E i \in DOMAIN s : s[i].id = id
    THEN CHOOSE i \in DOMAIN s : s[i].id = id /\ \A j \in 1..(i - 1) : s[j].id # id
    ELSE 0

\* Array.prototype.find with the test "element.id === id".
find(s, id) == IF findIndex(s, id) = 0 THEN Undefined ELSE s[findIndex(s, id)]

Ids(s) == {s[i].id : i \in DOMAIN s}

\* JSON.stringify of a collection followed by JSON.parse: the stored blob.
Stringify(s) == [i \in DOMAIN s |-> IF s[i] = Undefined THEN Null ELSE s[i]]

(***************************************************************************)
(* Business logic.                                                         *)
(***************************************************************************)
\* An expected revenue cut to whole currency units.  C34 tells it from
\* calculateExpectedRevenue.
calculateExpectedRevenue_wholeUnits(dealValue, probability) ==
    ((dealValue * probability) \div 100) * 100

\* dealValue * (probability / 100), in hundredths.
calculateExpectedRevenue(dealValue, probability) == dealValue * probability

\* A summary whose thresholds are exclusive.  C33 tells it from BANTSummary.
BANTSummary_exclusive(percent) ==
    IF percent > HOT THEN "Hot"
    ELSE IF percent > WARM THEN "Warm"
    ELSE "Cold"

BANTSummary(percent) ==
    IF percent >= HOT THEN "Hot"
    ELSE IF percent >= WARM THEN "Warm"
    ELSE "Cold"

\* percent = (total / 20) * 100; for the integer totals of the form this is
\* 5 * total (the double differs by one ulp at total = 11, on the same side
\* of both thresholds).
calculateBANT(budget, authority, need, timeline) ==
    LET total == budget + authority + need + timeline
        percent == (total * 100) \div MAX_BANT_SCORE
    IN  [total |-> total, percent |-> percent, summary |-> BANTSummary(percent)]

\* parseFloat(field) || 0
parseFloatOr0(v) == IF v = NaN \/ v = 0 THEN 0 ELSE v

\* parseInt(field) || 1
parseIntOr1(v) == IF v = NaN \/ v = 0 THEN 1 ELSE v

(***************************************************************************)
(* State.                                                                  *)
(***************************************************************************)
VARIABLES
    opportunities,              \* let opportunities = []
    tasks,                      \* let tasks = []
    undoStack,                  \* let undoStack = []
    storedOpportunities,        \* localStorage 'opportunities', parsed
    storedTasks,                \* localStorage 'tasks', parsed
    currentEditingOpportunity,  \* id being edited, or NULL
    currentEditingTask,         \* id being edited, or NULL
    opportunityModal,           \* the opportunity modal has class 'active'
    taskModal,                  \* the task modal has class 'active'
    taskOpportunityOptions,     \* option values of the task form's select
    selectedOpportunities,      \* a Set, kept in insertion order
    selectedTasks,              \* a Set, kept in insertion order
    opportunitySortColumn,      \* let opportunitySortColumn = null
    opportunitySortDirection,   \* 'asc' or 'desc'
    taskSortColumn,             \* let taskSortColumn = null
    taskSortDirection,          \* 'asc' or 'desc'
    nextOppId,                  \* the next id generateOpportunityID issues
    nextTaskId,                 \* the next id generateTaskID issues
    toast,                      \* the last toast or alert shown
    activeTab,                  \* the tab whose content has class 'active'
    kanbanBoard,                \* the cards of the kanban columns
    calendarGrid,               \* the task indicators of the calendar cells
    storedVersion,              \* localStorage 'dataVersion'
    load,                       \* where loadDataFromStorage stands
    rejects,                    \* the keys for which localStorage.setItem
                                \* throws (quota exceeded) at this moment
    timezoneOffset,             \* hours the local time is ahead of UTC
    storageLength,              \* localStorage[key].length of the keys that
                                \* checkStorageQuota finds
    debounced,                  \* the timers of the two debounced search
                                \* boxes
    preDelete                   \* history: the collections before a
                                \* deleteOpportunity, kept while the next
                                \* handler to run is undo, and after it

vars == <<opportunities, tasks, undoStack, storedOpportunities, storedTasks,
          currentEditingOpportunity, currentEditingTask, opportunityModal,
          taskModal, taskOpportunityOptions, selectedOpportunities,
          selectedTasks, opportunitySortColumn, opportunitySortDirection,
          taskSortColumn, taskSortDirection, nextOppId, nextTaskId, toast,
          preDelete,
          activeTab, kanbanBoard, calendarGrid, storedVersion, load,
          rejects, timezoneOffset, storageLength, debounced>>

storeVars == <<opportunities, tasks, storedOpportunities, storedTasks>>
oppModalVars == <<currentEditingOpportunity, opportunityModal>>
taskModalVars == <<currentEditingTask, taskModal, taskOpportunityOptions>>
selectionVars == <<selectedOpportunities, selectedTasks>>
idVars == <<nextOppId, nextTaskId>>
oppSortVars == <<opportunitySortColumn, opportunitySortDirection>>
taskSortVars == <<taskSortColumn, taskSortDirection>>
sortVars == <<oppSortVars, taskSortVars>>
viewVars == <<activeTab, kanbanBoard, calendarGrid>>
envVars ==
    <<storedVersion, load, rejects, timezoneOffset, storageLength, debounced>>

Toast(text, n) == [text |-> text, n |-> n]

\* A write that clears the blob when it is rejected.  C22 tells it from
\* setItem.
setItem_truncates(key, stored, value) ==
    IF key \in rejects THEN <<>> ELSE value

\* localStorage.setItem(key, value): the blob of key afterwards; a rejected
\* write throws and leaves the blob as it was
setItem(key, stored, value) == IF key \in rejects THEN stored ELSE value

\* saveOpportunitiesToStorage / saveTasksToStorage: the blob afterwards
save(key, stored, collection) == setItem(key, stored, Stringify(collection))

\* the catch branch of the two save functions: alert('Unable to save data.
\* Storage may be full.') when a write of keys was rejected, else what was
\* shown before
alerted(keys, shown) ==
    IF keys \cap rejects # {} THEN Toast("Unable to save data", 0) ELSE shown
NoSnapshot == [phase |-> "none", opportunities |-> <<>>, tasks |-> <<>>]

(***************************************************************************)
(* Inputs: what the user types into the forms.                             *)
(***************************************************************************)
\* The example of the documentation (16 of 20: Hot), and a form with empty
\* and zero fields (10 of 20: Cold).
OppForms ==
    { [name |-> "Acme ERP", stage |-> "Lead", status |-> "Open",
       dealValue |-> 1000, probability |-> 40,
       budget |-> 4, authority |-> 3, need |-> 5, timeline |-> 4],
      [name |-> "beta CRM", stage |-> "Qualified", status |-> "Open",
       dealValue |-> 250, probability |-> NaN,
       budget |-> 0, authority |-> NaN, need |-> 5, timeline |-> 3] }

OneForm == CHOOSE form \in OppForms : form.name = "Acme ERP"

\* the same opportunity, revised in the Edit form
RevisedForm == [OneForm EXCEPT !.stage = "Proposal", !.probability = 60]

TaskForms(options) ==
    { [opportunityId |-> o, taskName |-> "Demo", dueDate |-> "2026-01-15",
       status |-> "Not Started"] : o \in options }

\* the same task, revised in the Edit form
RevisedTaskForms(options) ==
    { [form EXCEPT !.status = "In Progress"] : form \in TaskForms(options) }

\* The record saveOpportunity builds from the form.
opportunityData(id, form) ==
    LET dealValue == parseFloatOr0(form.dealValue)
        probability == parseFloatOr0(form.probability)
        budget == parseIntOr1(form.budget)
        authority == parseIntOr1(form.authority)
        need == parseIntOr1(form.need)
        timeline == parseIntOr1(form.timeline)
        bant == calculateBANT(budget, authority, need, timeline)
    IN  [id |-> id, name |-> form.name, stage |-> form.stage,
         status |-> form.status, dealValue |-> dealValue,
         probability |-> probability,
         expectedRevenue |-> calculateExpectedRevenue(dealValue, probability),
         bant |-> [budget |-> budget, authority |-> authority,
                   need |-> need, timeline |-> timeline],
         bantTotal |-> bant.total, bantPercent |-> bant.percent,
         bantSummary |-> bant.summary]

\* The record saveTask builds from the form.
taskData(id, form) ==
    [id |-> id, opportunityId |-> form.opportunityId,
     taskName |-> form.taskName, dueDate |-> form.dueDate,
     status |-> form.status]

\* the columns of the kanban board
Stages == {"Lead", "Qualified", "Proposal", "Negotiation", "Closed"}

Tabs == {"dashboard", "opportunities", "tasks", "calendar", "kanban"}

\* the days of the month on display that are kept (January 2026), and the
\* values of a task's dueDate: an <input type="date"> value or empty
Days == {14, 15, 16}
DueDates == {"", "2026-01-14", "2026-01-15", "2026-01-16"}

\* a calendar cell without task indicators
NoIndicators == [indicators |-> <<>>, more |-> 0]

\* loadDataFromStorage has returned
Loaded == [at |-> "ready", v |-> 0, failed |-> FALSE]

\* localStorage holding the version marker "2" only
MarkerOnly == [key \in {"dataVersion"} |-> 1]

\* the search boxes whose input listener is debounced
SearchBoxes == {"opp-search", "task-search"}

\* the timer of a debounced listener: whether a timeout is pending, the
\* milliseconds until it fires, the milliseconds since the last input event
\* (counted up to DebounceDelay), how many input events came with less than
\* DebounceDelay between them, and how often func ran since the first of them
NoTimer == [pending |-> FALSE, remaining |-> 0, since |-> DebounceDelay,
            ran |-> 0, events |-> 0]

\* The page as DOMContentLoaded leaves it on a first visit: storage was
\* empty, the load wrote [] for both collections and the version marker.
Init ==
    /\ opportunities = <<>>
    /\ tasks = <<>>
    /\ undoStack = <<>>
    /\ storedOpportunities = <<>>
    /\ storedTasks = <<>>
    /\ currentEditingOpportunity = NULL
    /\ currentEditingTask = NULL
    /\ opportunityModal = FALSE
    /\ taskModal = FALSE
    /\ taskOpportunityOptions = {}
    /\ selectedOpportunities = <<>>
    /\ selectedTasks = <<>>
    /\ opportunitySortColumn = "null"
    /\ opportunitySortDirection = "asc"
    /\ taskSortColumn = "null"
    /\ taskSortDirection = "asc"
    /\ nextOppId = 1
    /\ nextTaskId = 1
    /\ toast = Toast("", 0)
    /\ preDelete = NoSnapshot
    /\ activeTab = "dashboard"
    /\ kanbanBoard = [stage \in Stages |-> <<>>]
    /\ calendarGrid = [day \in Days |-> NoIndicators]
    /\ storedVersion = "2"
    /\ load = Loaded
    /\ rejects = {}
    /\ timezoneOffset = 0
    /\ storageLength = MarkerOnly
    /\ debounced = [box \in SearchBoxes |-> NoTimer]

(***************************************************************************)
(* Undo stack.                                                             *)
(***************************************************************************)
\* A full stack that refuses the new action instead of dropping the oldest
\* (pop() in place of shift()).  C5 tells it from addToUndoStack.
addToUndoStack_dropsNewest(stack, action) ==
    LET pushed == Append(stack, action)
    IN  IF Len(pushed) > MAX_UNDO_STACK
        THEN SubSeq(pushed, 1, MAX_UNDO_STACK) ELSE pushed

\* undoStack.push(action); if (undoStack.length > MAX_UNDO_STACK) shift()
addToUndoStack(stack, action) ==
    LET pushed == Append(stack, action)
    IN  IF Len(pushed) > MAX_UNDO_STACK THEN Tail(pushed) ELSE pushed

\* the render functions read a field of every element they show
renderThrows(s) == \E i \in DOMAIN s : s[i] = Undefined

(***************************************************************************)
(* Opportunity modal.                                                      *)
(***************************************************************************)
openAddOpportunityModal ==
    /\ currentEditingOpportunity' = NULL
    /\ opportunityModal' = TRUE
    /\ preDelete' = NoSnapshot
    /\ UNCHANGED <<storeVars, undoStack, taskModalVars, selectionVars, idVars,
                   toast>>
    /\ UNCHANGED <<sortVars, viewVars, envVars>>

openEditOpportunityModal(id) ==
    /\ IF find(opportunities, id) = Undefined
       THEN UNCHANGED oppModalVars
       ELSE /\ currentEditingOpportunity' = id
            /\ opportunityModal' = TRUE
    /\ preDelete' = NoSnapshot
    /\ UNCHANGED <<storeVars, undoStack, taskModalVars, selectionVars, idVars,
                   toast>>
    /\ UNCHANGED <<sortVars, viewVars, envVars>>

\* A close that hides the modal and leaves the editing id in place.  C28
\* tells it from closeOpportunityModal.
closeOpportunityModal_keepsId ==
    /\ opportunityModal' = FALSE
    /\ UNCHANGED currentEditingOpportunity
    /\ preDelete' = NoSnapshot
    /\ UNCHANGED <<storeVars, undoStack, taskModalVars, selectionVars, idVars,
                   toast>>
    /\ UNCHANGED <<sortVars, viewVars, envVars>>

closeOpportunityModal ==
    /\ opportunityModal' = FALSE
    /\ currentEditingOpportunity' = NULL
    /\ preDelete' = NoSnapshot
    /\ UNCHANGED <<storeVars, undoStack, taskModalVars, selectionVars, idVars,
                   toast>>
    /\ UNCHANGED <<sortVars, viewVars, envVars>>

\* An update that takes the record out and pushes the new one at the end.
\* C11 tells it from replaceAt.
replaceAt_movedToEnd(s, index, data) ==
    Append(SubSeq(s, 1, index - 1) \o SubSeq(s, index + 1, Len(s)), data)

\* opportunities[index] = opportunityData / tasks[index] = taskData
replaceAt(s, index, data) == [s EXCEPT ![index] = data]

\* saveOpportunity, the submit handler of the opportunity form; generated is
\* what generateOpportunityID() returns when it is called
saveOpportunityWithId(form, generated) ==
    /\ LET editing == currentEditingOpportunity # NULL
           id == IF editing THEN currentEditingOpportunity ELSE generated
           data == opportunityData(id, form)
           index == findIndex(opportunities, currentEditingOpportunity)
       IN  /\ opportunities' =
                  IF editing
                  THEN IF index # 0
                       THEN replaceAt(opportunities, index, data)
                       ELSE opportunities
                  ELSE Append(opportunities, data)
           /\ nextOppId' = IF editing THEN nextOppId ELSE nextOppId + 1
    /\ storedOpportunities' =
                       save("opportunities", storedOpportunities, opportunities')
    /\ opportunityModal' = FALSE
    /\ currentEditingOpportunity' = NULL
    /\ preDelete' = NoSnapshot
    /\ toast' = alerted({"opportunities"}, toast)
    /\ UNCHANGED <<tasks, storedTasks, undoStack, taskModalVars,
                   selectionVars, nextTaskId>>
    /\ UNCHANGED <<sortVars, viewVars, envVars>>

\* the n-th id the generator issues is n: no id is issued twice
saveOpportunity(form) == saveOpportunityWithId(form, nextOppId)

(***************************************************************************)
(* Task modal.                                                             *)
(***************************************************************************)
openAddTaskModal ==
    /\ currentEditingTask' = NULL
    /\ taskOpportunityOptions' = Ids(opportunities)
    /\ taskModal' = TRUE
    /\ preDelete' = NoSnapshot
    /\ UNCHANGED <<storeVars, undoStack, oppModalVars, selectionVars, idVars,
                   toast>>
    /\ UNCHANGED <<sortVars, viewVars, envVars>>

openEditTaskModal(id) ==
    /\ IF find(tasks, id) = Undefined
       THEN UNCHANGED taskModalVars
       ELSE /\ currentEditingTask' = id
            /\ taskOpportunityOptions' = Ids(opportunities)
            /\ taskModal' = TRUE
    /\ preDelete' = NoSnapshot
    /\ UNCHANGED <<storeVars, undoStack, oppModalVars, selectionVars, idVars,
                   toast>>
    /\ UNCHANGED <<sortVars, viewVars, envVars>>

closeTaskModal ==
    /\ taskModal' = FALSE
    /\ currentEditingTask' = NULL
    /\ preDelete' = NoSnapshot
    /\ UNCHANGED <<storeVars, undoStack, oppModalVars, taskOpportunityOptions,
                   selectionVars, idVars, toast>>
    /\ UNCHANGED <<sortVars, viewVars, envVars>>

\* saveTask, the submit handler of the task form; generated is what
\* generateTaskID() returns when it is called
saveTaskWithId(form, generated) ==
    /\ LET editing == currentEditingTask # NULL
           id == IF editing THEN currentEditingTask ELSE generated
           data == taskData(id, form)
           index == findIndex(tasks, currentEditingTask)
       IN  /\ tasks' =
                  IF editing
                  THEN IF index # 0
                       THEN replaceAt(tasks, index, data)
                       ELSE tasks
                  ELSE Append(tasks, data)
           /\ nextTaskId' = IF editing THEN nextTaskId ELSE nextTaskId + 1
    /\ storedTasks' = save("tasks", storedTasks, tasks')
    /\ taskModal' = FALSE
    /\ currentEditingTask' = NULL
    /\ preDelete' = NoSnapshot
    /\ toast' = alerted({"tasks"}, toast)
    /\ UNCHANGED <<opportunities, storedOpportunities, undoStack, oppModalVars,
                   taskOpportunityOptions, selectionVars, nextOppId>>
    /\ UNCHANGED <<sortVars, viewVars, envVars>>

\* the n-th id the generator issues is n: no id is issued twice
saveTask(form) == saveTaskWithId(form, nextTaskId)

(***************************************************************************)
(* Single deletes.  confirmed is the answer to the confirm() dialog.       *)
(***************************************************************************)
\* opportunities.filter(opp => opp.id !== id)
withoutOpportunity(opps, id) == SelectSeq(opps, LAMBDA o : o.id # id)

\* tasks.filter(task => task.opportunityId === id)
associatedTasksOf(ts, id) == SelectSeq(ts, LAMBDA t : t.opportunityId = id)

\* A delete without the cascade: the tasks table is left as it is.  C1
\* tells it from withoutTasksOf.
withoutTasksOf_noCascade(ts, id) == ts

\* tasks.filter(task => task.opportunityId !== id)
withoutTasksOf(ts, id) == SelectSeq(ts, LAMBDA t : t.opportunityId # id)

deleteOpportunity(id, confirmed) ==
    /\ IF ~confirmed
       THEN /\ preDelete' = NoSnapshot
            /\ UNCHANGED <<storeVars, undoStack, toast>>
       ELSE LET opportunity == find(opportunities, id)
                associatedTasks == associatedTasksOf(tasks, id)
            IN  /\ undoStack' = addToUndoStack(undoStack,
                       [type |-> "delete_opportunity",
                        opportunity |-> opportunity,
                        tasks |-> associatedTasks])
                /\ opportunities' = withoutOpportunity(opportunities, id)
                /\ storedOpportunities' =
                       save("opportunities", storedOpportunities, opportunities')
                /\ tasks' = withoutTasksOf(tasks, id)
                /\ storedTasks' = save("tasks", storedTasks, tasks')
                /\ toast' = Toast("Opportunity deleted", 0)
                /\ preDelete' = [phase |-> "deleted",
                                 opportunities |-> opportunities,
                                 tasks |-> tasks]
    /\ UNCHANGED <<oppModalVars, taskModalVars, selectionVars, idVars>>
    /\ UNCHANGED <<sortVars, viewVars, envVars>>

\* tasks.filter(t => t.id !== id)
withoutTask(ts, id) == SelectSeq(ts, LAMBDA t : t.id # id)

deleteTask(id, confirmed) ==
    /\ preDelete' = NoSnapshot
    /\ IF ~confirmed
       THEN UNCHANGED <<storeVars, undoStack, toast>>
       ELSE /\ undoStack' = addToUndoStack(undoStack,
                   [type |-> "delete_task", task |-> find(tasks, id)])
            /\ tasks' = withoutTask(tasks, id)
            /\ storedTasks' = save("tasks", storedTasks, tasks')
            /\ toast' = Toast("Task deleted", 0)
            /\ UNCHANGED <<opportunities, storedOpportunities>>
    /\ UNCHANGED <<oppModalVars, taskModalVars, selectionVars, idVars>>
    /\ UNCHANGED <<sortVars, viewVars, envVars>>

(***************************************************************************)
(* undo.  What each kind of action puts back.                              *)
(***************************************************************************)
restoredOpportunities(action) ==
    IF action.type = "delete_opportunity" THEN <<action.opportunity>>
    ELSE IF action.type = "bulk_delete_opportunities" THEN action.opportunities
    ELSE <<>>

restoredTasks(action) ==
    IF action.type = "delete_task" THEN <<action.task>> ELSE action.tasks

restoredToast(action) ==
    IF action.type = "delete_opportunity" THEN Toast("Opportunity restored", 0)
    ELSE IF action.type = "delete_task" THEN Toast("Task restored", 0)
    ELSE IF action.type = "bulk_delete_opportunities"
         THEN Toast("opportunities restored", Len(action.opportunities))
    ELSE Toast("tasks restored", Len(action.tasks))

\* undo without its guard.  C7 tells it from nothingToUndo.
nothingToUndo_noGuard(stack) == FALSE

\* the guard of undo: undoStack.length === 0
nothingToUndo(stack) == Len(stack) = 0

\* shift() in place of pop(): undo takes the oldest action.  C6 tells it
\* from pop.
pop_oldest(stack) ==
    IF stack = <<>> THEN [action |-> Undefined, rest |-> stack]
    ELSE [action |-> Head(stack), rest |-> Tail(stack)]

\* undoStack.pop(): the last action and what stays; undefined when empty
pop(stack) ==
    IF stack = <<>> THEN [action |-> Undefined, rest |-> stack]
    ELSE [action |-> stack[Len(stack)],
          rest |-> SubSeq(stack, 1, Len(stack) - 1)]

undo ==
    /\ IF nothingToUndo(undoStack)
       THEN /\ toast' = Toast("Nothing to undo", 0)
            /\ preDelete' = NoSnapshot
            /\ UNCHANGED <<storeVars, undoStack>>
       ELSE LET action == pop(undoStack).action
                touchesOpps == action.type \in
                    {"delete_opportunity", "bulk_delete_opportunities"}
            IN  IF action = Undefined
                \* reading action.type throws
                THEN /\ preDelete' = NoSnapshot
                     /\ UNCHANGED <<storeVars, undoStack, toast>>
                ELSE
                /\ undoStack' = pop(undoStack).rest
                /\ opportunities' =
                       opportunities \o restoredOpportunities(action)
                /\ tasks' = tasks \o restoredTasks(action)
                /\ storedOpportunities' =
                       IF touchesOpps
                       THEN save("opportunities", storedOpportunities,
                                 opportunities')
                       ELSE storedOpportunities
                /\ storedTasks' = save("tasks", storedTasks, tasks')
                \* a render that throws ends the handler before showSuccess
                /\ toast' = IF \/ touchesOpps /\ renderThrows(opportunities')
                               \/ renderThrows(tasks')
                            THEN alerted(IF touchesOpps
                                         THEN {"opportunities", "tasks"}
                                         ELSE {"tasks"}, toast)
                            ELSE restoredToast(action)
                /\ preDelete' = IF preDelete.phase = "deleted"
                                THEN [preDelete EXCEPT !.phase = "undone"]
                                ELSE NoSnapshot
    /\ UNCHANGED <<oppModalVars, taskModalVars, selectionVars, idVars>>
    /\ UNCHANGED <<sortVars, viewVars, envVars>>

(***************************************************************************)
(* Selection and bulk operations.  A Set iterates in insertion order.      *)
(***************************************************************************)
has(set, id) == \E i \in DOMAIN set : set[i] = id

\* Set.prototype.delete when present, Set.prototype.add when not
toggle(set, id) ==
    IF has(set, id) THEN SelectSeq(set, LAMBDA x : x # id) ELSE Append(set, id)

toggleOpportunitySelection(id) ==
    /\ selectedOpportunities' = toggle(selectedOpportunities, id)
    /\ preDelete' = NoSnapshot
    /\ UNCHANGED <<storeVars, undoStack, oppModalVars, taskModalVars,
                   selectedTasks, idVars, toast>>
    /\ UNCHANGED <<sortVars, viewVars, envVars>>

toggleTaskSelection(id) ==
    /\ selectedTasks' = toggle(selectedTasks, id)
    /\ preDelete' = NoSnapshot
    /\ UNCHANGED <<storeVars, undoStack, oppModalVars, taskModalVars,
                   selectedOpportunities, idVars, toast>>
    /\ UNCHANGED <<sortVars, viewVars, envVars>>

\* the records of s whose ids the selection holds, in selection order
RECURSIVE foundInOrder(_, _)
foundInOrder(selection, s) ==
    IF selection = <<>> THEN <<>>
    ELSE LET x == find(s, Head(selection))
         IN  (IF x = Undefined THEN <<>> ELSE <<x>>)
                 \o foundInOrder(Tail(selection), s)

\* A bulk delete that records no task of the opportunities it removes.  C14
\* tells it from tasksInOrder.
tasksInOrder_none(selection, opps, ts) == <<>>

\* the tasks of each selected opportunity that exists, in selection order
RECURSIVE tasksInOrder(_, _, _)
tasksInOrder(selection, opps, ts) ==
    IF selection = <<>> THEN <<>>
    ELSE LET id == Head(selection)
         IN  (IF find(opps, id) = Undefined THEN <<>>
              ELSE SelectSeq(ts, LAMBDA t : t.opportunityId = id))
                 \o tasksInOrder(Tail(selection), opps, ts)

bulkDeleteOpportunities(confirmed) ==
    /\ preDelete' = NoSnapshot
    /\ IF Len(selectedOpportunities) = 0 \/ ~confirmed
       THEN UNCHANGED <<storeVars, undoStack, selectionVars, toast>>
       ELSE LET deletedOpportunities ==
                    foundInOrder(selectedOpportunities, opportunities)
                deletedTasks ==
                    tasksInOrder(selectedOpportunities, opportunities, tasks)
            IN  /\ undoStack' = addToUndoStack(undoStack,
                       [type |-> "bulk_delete_opportunities",
                        opportunities |-> deletedOpportunities,
                        tasks |-> deletedTasks])
                /\ opportunities' = SelectSeq(opportunities,
                       LAMBDA o : ~has(selectedOpportunities, o.id))
                /\ tasks' = SelectSeq(tasks,
                       LAMBDA t : find(deletedOpportunities, t.opportunityId)
                                      = Undefined)
                /\ selectedOpportunities' = <<>>
                /\ storedOpportunities' =
                       save("opportunities", storedOpportunities, opportunities')
                /\ storedTasks' = save("tasks", storedTasks, tasks')
                /\ toast' = Toast("opportunities deleted",
                                  Len(deletedOpportunities))
                /\ UNCHANGED selectedTasks
    /\ UNCHANGED <<oppModalVars, taskModalVars, idVars>>
    /\ UNCHANGED <<sortVars, viewVars, envVars>>

\* A bulk delete of tasks that does not ask: the answer to confirm() is not
\* looked at.  C16 tells it from bulkDeleteTasks.
bulkDeleteTasks_unconfirmed(confirmed) ==
    /\ preDelete' = NoSnapshot
    /\ IF Len(selectedTasks) = 0
       THEN UNCHANGED <<storeVars, undoStack, selectionVars, toast>>
       ELSE LET deletedTasks == foundInOrder(selectedTasks, tasks)
            IN  /\ undoStack' = addToUndoStack(undoStack,
                       [type |-> "bulk_delete_tasks", tasks |-> deletedTasks])
                /\ tasks' = SelectSeq(tasks,
                       LAMBDA t : ~has(selectedTasks, t.id))
                /\ selectedTasks' = <<>>
                /\ storedTasks' = save("tasks", storedTasks, tasks')
                /\ toast' = Toast("tasks deleted", Len(deletedTasks))
                /\ UNCHANGED <<opportunities, storedOpportunities,
                               selectedOpportunities>>
    /\ UNCHANGED <<oppModalVars, taskModalVars, idVars>>
    /\ UNCHANGED <<sortVars, viewVars, envVars>>

bulkDeleteTasks(confirmed) ==
    /\ preDelete' = NoSnapshot
    /\ IF Len(selectedTasks) = 0 \/ ~confirmed
       THEN UNCHANGED <<storeVars, undoStack, selectionVars, toast>>
       ELSE LET deletedTasks == foundInOrder(selectedTasks, tasks)
            IN  /\ undoStack' = addToUndoStack(undoStack,
                       [type |-> "bulk_delete_tasks", tasks |-> deletedTasks])
                /\ tasks' = SelectSeq(tasks,
                       LAMBDA t : ~has(selectedTasks, t.id))
                /\ selectedTasks' = <<>>
                /\ storedTasks' = save("tasks", storedTasks, tasks')
                /\ toast' = Toast("tasks deleted", Len(deletedTasks))
                /\ UNCHANGED <<opportunities, storedOpportunities,
                               selectedOpportunities>>
    /\ UNCHANGED <<oppModalVars, taskModalVars, idVars>>
    /\ UNCHANGED <<sortVars, viewVars, envVars>>

\* A bulk update that sets the status of every record, selected or not.
\* C15 tells it from setStatus.
setStatus_all(s, selection, newStatus) ==
    [i \in DOMAIN s |-> [s[i] EXCEPT !.status = newStatus]]

\* status = newStatus on every record whose id the selection holds (the
\* first one with that id, as find returns it)
setStatus(s, selection, newStatus) ==
    [i \in DOMAIN s |->
        IF has(selection, s[i].id) /\ findIndex(s, s[i].id) = i
        THEN [s[i] EXCEPT !.status = newStatus] ELSE s[i]]

bulkUpdateOpportunityStatus(newStatus) ==
    /\ preDelete' = NoSnapshot
    /\ IF Len(selectedOpportunities) = 0
       THEN UNCHANGED <<storeVars, selectionVars, toast>>
       ELSE /\ opportunities' =
                   setStatus(opportunities, selectedOpportunities, newStatus)
            /\ selectedOpportunities' = <<>>
            /\ storedOpportunities' =
                       save("opportunities", storedOpportunities, opportunities')
            \* the message reads selectedOpportunities.size after clear()
            /\ toast' = Toast("Updated opportunities",
                              Len(selectedOpportunities'))
            /\ UNCHANGED <<tasks, storedTasks, selectedTasks>>
    /\ UNCHANGED <<undoStack, oppModalVars, taskModalVars, idVars>>
    /\ UNCHANGED <<sortVars, viewVars, envVars>>

\* A bulk update of tasks whose message reads the selection after it was
\* cleared.  C38 tells it from bulkUpdateTaskStatus.
bulkUpdateTaskStatus_countsAfterClear(newStatus) ==
    /\ preDelete' = NoSnapshot
    /\ IF Len(selectedTasks) = 0
       THEN UNCHANGED <<storeVars, selectionVars, toast>>
       ELSE /\ tasks' = setStatus(tasks, selectedTasks, newStatus)
            /\ selectedTasks' = <<>>
            /\ storedTasks' = save("tasks", storedTasks, tasks')
            /\ toast' = Toast("Updated tasks", Len(selectedTasks'))
            /\ UNCHANGED <<opportunities, storedOpportunities,
                           selectedOpportunities>>
    /\ UNCHANGED <<undoStack, oppModalVars, taskModalVars, idVars>>
    /\ UNCHANGED <<sortVars, viewVars, envVars>>

bulkUpdateTaskStatus(newStatus) ==
    /\ preDelete' = NoSnapshot
    /\ IF Len(selectedTasks) = 0
       THEN UNCHANGED <<storeVars, selectionVars, toast>>
       ELSE LET count == Len(selectedTasks)
            IN  /\ tasks' = setStatus(tasks, selectedTasks, newStatus)
                /\ selectedTasks' = <<>>
                /\ storedTasks' = save("tasks", storedTasks, tasks')
                /\ toast' = Toast("Updated tasks", count)
                /\ UNCHANGED <<opportunities, storedOpportunities,
                               selectedOpportunities>>
    /\ UNCHANGED <<undoStack, oppModalVars, taskModalVars, idVars>>
    /\ UNCHANGED <<sortVars, viewVars, envVars>>

(***************************************************************************)
(* Import, export, kanban drop.                                            *)
(***************************************************************************)
\* migrations[1] returns its argument; no other version has a step
migrations(v, data) == data

RECURSIVE migrateData(_, _, _)
migrateData(fromVersion, toVersion, data) ==
    IF fromVersion >= toVersion THEN data
    ELSE migrateData(fromVersion + 1, toVersion,
                     IF fromVersion = 1 THEN migrations(fromVersion, data)
                     ELSE data)

\* A backup written by an earlier session (its ids are not ids of this
\* session), the same backup with probability edited by hand, and a file
\* without the tasks key.
BackupOpportunity ==
    opportunityData(9, [name |-> "Acme ERP", stage |-> "Proposal",
                        status |-> "Open", dealValue |-> 1000,
                        probability |-> 40, budget |-> 4, authority |-> 3,
                        need |-> 5, timeline |-> 4])

BackupTask ==
    [id |-> 9, opportunityId |-> 9, taskName |-> "Demo",
     dueDate |-> "2026-01-15", status |-> "In Progress"]

BackupFile ==
    [parses |-> TRUE, keys |-> {"version", "opportunities", "tasks"},
     version |-> 2, opportunities |-> <<BackupOpportunity>>,
     tasks |-> <<BackupTask>>]

EditedFile ==
    [BackupFile EXCEPT
        !.opportunities = <<[BackupOpportunity EXCEPT !.probability = 80]>>]

\* the export of a tracker that holds no record
EmptyFile ==
    [parses |-> TRUE, keys |-> {"version", "opportunities", "tasks"},
     version |-> 2, opportunities |-> <<>>, tasks |-> <<>>]

NoTasksFile ==
    [parses |-> TRUE, keys |-> {"version", "opportunities"},
     version |-> 2, opportunities |-> <<BackupOpportunity>>, tasks |-> <<>>]

ImportFiles == {BackupFile, EditedFile, NoTasksFile}

\* a file that JSON.parse rejects, a file without the opportunities key,
\* and a backup of the previous version of the format
UnparseableFile ==
    [parses |-> FALSE, keys |-> {}, version |-> 0,
     opportunities |-> <<>>, tasks |-> <<>>]

NoOpportunitiesFile ==
    [parses |-> TRUE, keys |-> {"version", "tasks"},
     version |-> 2, opportunities |-> <<>>, tasks |-> <<BackupTask>>]

OldFile == [BackupFile EXCEPT !.version = 1]

AbortFiles ==
    {UnparseableFile, NoTasksFile, NoOpportunitiesFile, OldFile, BackupFile}

\* An import that replaces the collections before it asks.  C24 tells it
\* from importFromJSON.
importFromJSON_replacesFirst(file, confirmed) ==
    /\ preDelete' = NoSnapshot
    /\ IF ~file.parses \/ ~({"opportunities", "tasks"} \subseteq file.keys)
       THEN /\ toast' = Toast("Failed to import data", 0)
            /\ UNCHANGED storeVars
       ELSE /\ opportunities' = file.opportunities
            /\ tasks' = file.tasks
            /\ IF ~confirmed
               THEN UNCHANGED <<storedOpportunities, storedTasks, toast>>
               ELSE /\ storedOpportunities' =
                           save("opportunities", storedOpportunities,
                                opportunities')
                    /\ storedTasks' = save("tasks", storedTasks, tasks')
                    /\ toast' = Toast("Data imported successfully!", 0)
    /\ UNCHANGED <<undoStack, oppModalVars, taskModalVars, selectionVars,
                   idVars, sortVars, viewVars, envVars>>

\* reader.onload of importFromJSON; confirmed is the answer to confirm()
importFromJSON(file, confirmed) ==
    /\ preDelete' = NoSnapshot
    /\ IF ~file.parses \/ ~({"opportunities", "tasks"} \subseteq file.keys)
       THEN /\ toast' = Toast("Failed to import data", 0)
            /\ UNCHANGED storeVars
       ELSE LET importVersion ==
                    IF "version" \in file.keys /\ file.version # 0
                    THEN file.version ELSE 1
                migrated == migrateData(importVersion, DATA_VERSION,
                                [opportunities |-> file.opportunities,
                                 tasks |-> file.tasks])
            IN  IF ~confirmed
                THEN /\ toast' = IF importVersion < DATA_VERSION
                                 THEN Toast("Importing older data format", 0)
                                 ELSE toast
                     /\ UNCHANGED storeVars
                ELSE /\ opportunities' = migrated.opportunities
                     /\ tasks' = migrated.tasks
                     /\ storedOpportunities' =
                       save("opportunities", storedOpportunities, opportunities')
                     /\ storedTasks' = save("tasks", storedTasks, tasks')
                     /\ toast' = Toast("Data imported successfully!", 0)
    /\ UNCHANGED <<undoStack, oppModalVars, taskModalVars, selectionVars,
                   idVars, sortVars, viewVars, envVars>>

\* An export that leaves the tasks out of the file.  C23 tells it from
\* exportedData.
exportedData_withoutTasks(opps, ts) ==
    [parses |-> TRUE, keys |-> {"version", "opportunities", "tasks"},
     version |-> DATA_VERSION, opportunities |-> Stringify(opps),
     tasks |-> <<>>]

\* the file exportToJSON offers for download, as JSON.parse reads it back:
\* JSON.stringify of {version, exportDate, opportunities, tasks}
exportedData(opps, ts) ==
    [parses |-> TRUE, keys |-> {"version", "opportunities", "tasks"},
     version |-> DATA_VERSION, opportunities |-> Stringify(opps),
     tasks |-> Stringify(ts)]

exportToJSON ==
    /\ preDelete' = NoSnapshot
    /\ toast' = Toast("Data exported successfully!", 0)
    /\ UNCHANGED <<storeVars, undoStack, oppModalVars, taskModalVars,
                   selectionVars, idVars, sortVars, viewVars, envVars>>

\* what a kanban card shows of its opportunity
createKanbanCard(opportunity) ==
    [id |-> opportunity.id, status |-> opportunity.status,
     name |-> opportunity.name, dealValue |-> opportunity.dealValue,
     probability |-> opportunity.probability,
     expectedRevenue |-> opportunity.expectedRevenue,
     bantSummary |-> opportunity.bantSummary,
     bantPercent |-> opportunity.bantPercent]

\* the cards of every column: the opportunities of its stage, in the order
\* of the collection
renderKanbanBoard(opps) ==
    [stage \in Stages |->
        LET stageOpportunities == SelectSeq(opps, LAMBDA o : o.stage = stage)
        IN  [i \in DOMAIN stageOpportunities |->
                createKanbanCard(stageOpportunities[i])]]

\* the day of the month of a dueDate
dayOfMonth(dueDate) ==
    CASE dueDate = "2026-01-14" -> 14
      [] dueDate = "2026-01-15" -> 15
      [] dueDate = "2026-01-16" -> 16

\* new Date(dueDate) for a date-only string: midnight UTC of that day, in
\* hours since the month began (UTC)
utcMidnight(dueDate) == dayOfMonth(dueDate) * 24

\* new Date(year, month, day): midnight local time of that day
localMidnight(day) == day * 24 - timezoneOffset

\* the day that toDateString() prints for an instant: its local day
toDateString(instant) == (instant + timezoneOffset) \div 24

\* tasks.filter(...) of createCalendarDay and showTasksForDate
dayTasks(day, ts) ==
    SelectSeq(ts, LAMBDA task :
        /\ task.dueDate # ""
        /\ toDateString(utcMidnight(task.dueDate))
               = toDateString(localMidnight(day)))

\* A day cell of three lines: from the third task on, two labels and the
\* overflow label.  C31 tells it from createCalendarDay.
createCalendarDay_twoLabels(day, ts) ==
    LET due == dayTasks(day, ts)
        shown == IF Len(due) < 3 THEN Len(due) ELSE 2
    IN  [indicators |-> [i \in 1..shown |-> due[i].taskName],
         more |-> IF Len(due) >= 3 THEN Len(due) - 2 ELSE 0]

\* createCalendarDay: the indicators of the first three tasks of the day and
\* the number of the '+X more' indicator (0: there is none)
createCalendarDay(day, ts) ==
    LET due == dayTasks(day, ts)
        shown == IF Len(due) < 3 THEN Len(due) ELSE 3
    IN  [indicators |-> [i \in 1..shown |-> due[i].taskName],
         more |-> IF Len(due) > 3 THEN Len(due) - 3 ELSE 0]

renderCalendar(ts) == [day \in Days |-> createCalendarDay(day, ts)]

\* switchTab(tabName): the kanban board and the calendar grid are state
\* here; the dashboard is drawn from the collections at the same moment
switchTab(tabName) ==
    /\ activeTab' = tabName
    /\ kanbanBoard' = IF tabName = "kanban"
                      THEN renderKanbanBoard(opportunities)
                      ELSE kanbanBoard
    /\ calendarGrid' = IF tabName = "calendar"
                       THEN renderCalendar(tasks)
                       ELSE calendarGrid
    /\ preDelete' = NoSnapshot
    /\ UNCHANGED <<storeVars, undoStack, oppModalVars, taskModalVars,
                   selectionVars, idVars, sortVars, toast, envVars>>

\* A kanban drop that records itself for undo.  C9 tells it from handleDrop.
handleDrop_recorded(opportunityId, newStage) ==
    /\ preDelete' = NoSnapshot
    /\ LET index == findIndex(opportunities, opportunityId)
       IN  IF index # 0
           THEN /\ opportunities' =
                       [opportunities EXCEPT ![index].stage = newStage]
                /\ storedOpportunities' =
                       save("opportunities", storedOpportunities, opportunities')
                /\ undoStack' = addToUndoStack(undoStack,
                       [type |-> "move_opportunity", tasks |-> <<>>])
                /\ kanbanBoard' = renderKanbanBoard(opportunities')
                /\ toast' = alerted({"opportunities"}, toast)
           ELSE UNCHANGED <<opportunities, storedOpportunities, undoStack,
                            kanbanBoard, toast>>
    /\ UNCHANGED <<tasks, storedTasks, oppModalVars, taskModalVars,
                   selectionVars, idVars, sortVars, activeTab, calendarGrid,
                   envVars>>

\* A kanban drop that takes the opportunity out of the array and puts it
\* back at the end.  C29 tells it from handleDrop.
handleDrop_movesToEnd(opportunityId, newStage) ==
    /\ preDelete' = NoSnapshot
    /\ LET index == findIndex(opportunities, opportunityId)
       IN  IF index # 0
           THEN /\ opportunities' =
                       Append(SubSeq(opportunities, 1, index - 1)
                                  \o SubSeq(opportunities, index + 1,
                                            Len(opportunities)),
                              [opportunities[index] EXCEPT !.stage = newStage])
                /\ storedOpportunities' =
                       save("opportunities", storedOpportunities, opportunities')
                /\ kanbanBoard' = renderKanbanBoard(opportunities')
                /\ toast' = alerted({"opportunities"}, toast)
           ELSE UNCHANGED <<opportunities, storedOpportunities, kanbanBoard,
                            toast>>
    /\ UNCHANGED <<tasks, storedTasks, undoStack, oppModalVars, taskModalVars,
                   selectionVars, idVars, sortVars, activeTab, calendarGrid,
                   envVars>>

\* handleDrop with draggedCard a card of opportunity opportunityId, on the
\* column of newStage
handleDrop(opportunityId, newStage) ==
    /\ preDelete' = NoSnapshot
    /\ LET index == findIndex(opportunities, opportunityId)
       IN  IF index # 0
           THEN /\ opportunities' =
                       [opportunities EXCEPT ![index].stage = newStage]
                /\ storedOpportunities' =
                       save("opportunities", storedOpportunities, opportunities')
                /\ kanbanBoard' = renderKanbanBoard(opportunities')
                /\ toast' = alerted({"opportunities"}, toast)
           ELSE UNCHANGED <<opportunities, storedOpportunities, kanbanBoard,
                            toast>>
    /\ UNCHANGED <<tasks, storedTasks, undoStack, oppModalVars, taskModalVars,
                   selectionVars, idVars, sortVars, activeTab, calendarGrid,
                   envVars>>

(***************************************************************************)
(* Sorting: Array.prototype.sort is stable and sorts in place; the sorted  *)
(* order is not written to localStorage.                                   *)
(***************************************************************************)
\* the strings of the model in the order of JavaScript's < on strings
CodeUnitOrder ==
    <<"", "2026-01-14", "2026-01-15", "2026-01-16", "Acme ERP", "Call", "Closed", "Cold", "Completed", "Delayed",
      "Demo", "Hot", "In Progress", "Lead", "Lost", "Negotiation",
      "Not Started", "Open", "Proposal", "Qualified", "Warm", "Won",
      "acme erp", "beta CRM", "beta crm", "call", "demo">>

StrRank(str) == CHOOSE i \in DOMAIN CodeUnitOrder : CodeUnitOrder[i] = str

toLowerCase(str) ==
    CASE str = "Acme ERP" -> "acme erp"
      [] str = "beta CRM" -> "beta crm"
      [] str = "Demo" -> "demo"
      [] str = "Call" -> "call"
      [] OTHER -> str

OppSortColumns ==
    {"id", "name", "stage", "status", "dealValue", "probability",
     "expectedRevenue", "bantPercent", "bantSummary"}

TaskSortColumns == {"id", "taskName", "dueDate", "status"}

oppSortValue(o, column) ==
    CASE column = "id" -> o.id
      [] column = "name" -> StrRank(toLowerCase(o.name))
      [] column = "stage" -> StrRank(o.stage)
      [] column = "status" -> StrRank(o.status)
      [] column = "dealValue" -> o.dealValue
      [] column = "probability" -> o.probability
      [] column = "expectedRevenue" -> o.expectedRevenue
      [] column = "bantPercent" -> o.bantPercent
      [] column = "bantSummary" -> StrRank(o.bantSummary)

taskSortValue(t, column) ==
    CASE column = "id" -> t.id
      [] column = "taskName" -> StrRank(toLowerCase(t.taskName))
      [] column = "dueDate" -> StrRank(t.dueDate)
      [] column = "status" -> StrRank(t.status)

\* the comparator's result: -1, 0 or 1
compare(aVal, bVal, direction) ==
    IF aVal < bVal THEN (IF direction = "asc" THEN -1 ELSE 1)
    ELSE IF aVal > bVal THEN (IF direction = "asc" THEN 1 ELSE -1)
    ELSE 0

\* Array.prototype.sort on the elements' sort values: the permutation of
\* indices, index x placed before the first index it compares below
RECURSIVE insertSorted(_, _, _, _)
insertSorted(sorted, x, values, direction) ==
    IF sorted = <<>> THEN <<x>>
    ELSE IF compare(values[x], values[Head(sorted)], direction) < 0
         THEN <<x>> \o sorted
    ELSE <<Head(sorted)>>
             \o insertSorted(Tail(sorted), x, values, direction)

RECURSIVE sortedIndices(_, _, _)
sortedIndices(n, values, direction) ==
    IF n = 0 THEN <<>>
    ELSE insertSorted(sortedIndices(n - 1, values, direction), n, values,
                      direction)

stableSort(s, values, direction) ==
    LET order == sortedIndices(Len(s), values, direction)
    IN  [i \in DOMAIN s |-> s[order[i]]]

\* A header click that flips the direction whatever the column was.  C20
\* tells it from toggledDirection.
toggledDirection_alwaysFlips(current, column, direction) ==
    IF direction = "asc" THEN "desc" ELSE "asc"

toggledDirection(current, column, direction) ==
    IF current = column
    THEN (IF direction = "asc" THEN "desc" ELSE "asc")
    ELSE "asc"

sortOpportunities(column) ==
    /\ preDelete' = NoSnapshot
    /\ opportunitySortColumn' = column
    /\ opportunitySortDirection' =
           toggledDirection(opportunitySortColumn, column,
                            opportunitySortDirection)
    /\ opportunities' =
           IF column \in OppSortColumns
           THEN stableSort(opportunities,
                    [i \in DOMAIN opportunities |->
                        oppSortValue(opportunities[i], column)],
                    opportunitySortDirection')
           ELSE opportunities
    /\ UNCHANGED <<tasks, storedOpportunities, storedTasks, undoStack,
                   oppModalVars, taskModalVars, selectionVars, idVars,
                   taskSortVars, viewVars, envVars, toast>>

sortTasks(column) ==
    /\ preDelete' = NoSnapshot
    /\ taskSortColumn' = column
    /\ taskSortDirection' =
           toggledDirection(taskSortColumn, column, taskSortDirection)
    /\ tasks' =
           IF column \in TaskSortColumns
           THEN stableSort(tasks,
                    [i \in DOMAIN tasks |-> taskSortValue(tasks[i], column)],
                    taskSortDirection')
           ELSE tasks
    /\ UNCHANGED <<opportunities, storedOpportunities, storedTasks, undoStack,
                   oppModalVars, taskModalVars, selectionVars, idVars,
                   oppSortVars, viewVars, envVars, toast>>

(***************************************************************************)
(* The handlers as the page wires them.  Row buttons and checkboxes exist  *)
(* for the records of the collections (every handler that changes a        *)
(* collection re-renders its table); a form is submitted or cancelled      *)
(* while its modal is active, and while a modal is active it covers the    *)
(* page, so that only the keyboard shortcuts (Ctrl+E, Ctrl+I) reach the    *)
(* other handlers.  Kanban cards are re-rendered on a tab switch or a drop  *)
(* only, so a card may show an opportunity that is gone.                   *)
(***************************************************************************)
noModal == ~opportunityModal /\ ~taskModal

\* every id an opportunity can have: issued by the generator, or imported
AllOppIds == 1..MaxOppIds \cup {BackupOpportunity.id}
AllTaskIds == 1..MaxTaskIds \cup {BackupTask.id}

\* the collections do not outgrow MaxRecords (an import followed by undo
\* can duplicate records without limit)
canUndo ==
    IF undoStack = <<>> THEN TRUE
    ELSE LET action == pop(undoStack).action
         IN  /\ Len(opportunities) + Len(restoredOpportunities(action))
                    <= MaxRecords
             /\ Len(tasks) + Len(restoredTasks(action)) <= MaxRecords

OpenAddOpportunity == noModal /\ openAddOpportunityModal
OpenEditOpportunity ==
    noModal /\ \E id \in AllOppIds : openEditOpportunityModal(id)
CloseOpportunity == opportunityModal /\ closeOpportunityModal
\* issued counts how many ids the specification lets the generator issue
SaveOpportunity(forms, issued) ==
    /\ opportunityModal
    /\ currentEditingOpportunity = NULL => nextOppId <= issued
    /\ \E form \in forms : saveOpportunity(form)
OpenAddTask == noModal /\ openAddTaskModal
OpenEditTask == noModal /\ \E id \in Ids(tasks) : openEditTaskModal(id)
CloseTask == taskModal /\ closeTaskModal
SaveTask(issued) ==
    /\ taskModal
    /\ currentEditingTask = NULL => nextTaskId <= issued
    /\ \E form \in TaskForms(taskOpportunityOptions) : saveTask(form)
DeleteOpportunity(depth) ==
    /\ noModal /\ Len(undoStack) < depth
    /\ \E id \in Ids(opportunities), confirmed \in BOOLEAN :
           deleteOpportunity(id, confirmed)
DeleteTask(depth) ==
    /\ noModal /\ Len(undoStack) < depth
    /\ \E id \in Ids(tasks), confirmed \in BOOLEAN : deleteTask(id, confirmed)
Undo == noModal /\ canUndo /\ undo
ToggleOpportunity ==
    noModal /\ \E id \in Ids(opportunities) : toggleOpportunitySelection(id)
ToggleTask == noModal /\ \E id \in Ids(tasks) : toggleTaskSelection(id)
BulkDeleteOpportunities(depth) ==
    /\ noModal /\ Len(undoStack) < depth
    /\ \E confirmed \in BOOLEAN : bulkDeleteOpportunities(confirmed)
BulkDeleteTasks(depth) ==
    /\ noModal /\ Len(undoStack) < depth
    /\ \E confirmed \in BOOLEAN : bulkDeleteTasks(confirmed)
BulkUpdateOpportunityStatus(statuses) ==
    noModal /\ \E status \in statuses : bulkUpdateOpportunityStatus(status)
BulkUpdateTaskStatus(statuses) ==
    noModal /\ \E status \in statuses : bulkUpdateTaskStatus(status)
SortOpportunities(columns) ==
    noModal /\ \E column \in columns : sortOpportunities(column)
SortTasks(columns) == noModal /\ \E column \in columns : sortTasks(column)
HandleDrop(stages) ==
    noModal /\ \E id \in AllOppIds, stage \in stages : handleDrop(id, stage)
Import(files) ==
    \E file \in files, confirmed \in BOOLEAN : importFromJSON(file, confirmed)
Export == exportToJSON

(***************************************************************************)
(* Spec: adding and editing records, deleting opportunities and restoring  *)
(* them, in one session.                                                   *)
(***************************************************************************)
Next ==
    \/ OpenAddOpportunity \/ OpenEditOpportunity \/ CloseOpportunity
    \/ SaveOpportunity({OneForm}, MaxOppIds)
    \/ OpenAddTask \/ OpenEditTask \/ CloseTask \/ SaveTask(MaxTaskIds)
    \/ DeleteOpportunity(MaxUndoDepth) \/ Undo

Spec == Init /\ [][Next]_vars

(***************************************************************************)
(* SpecImport: the same session with backups imported (Ctrl+I) at any      *)
(* moment, a modal open or not.                                            *)
(***************************************************************************)
NextImport ==
    \/ OpenAddOpportunity \/ OpenEditOpportunity \/ CloseOpportunity
    \/ SaveOpportunity({OneForm}, 1)
    \/ OpenAddTask \/ OpenEditTask \/ CloseTask \/ SaveTask(1)
    \/ DeleteOpportunity(1) \/ DeleteTask(1) \/ Undo
    \/ Import(ImportFiles) \/ Export

SpecImport == Init /\ [][NextImport]_vars

(***************************************************************************)
(* SpecAll: every handler, on one opportunity and one task.                *)
(***************************************************************************)
NextAll ==
    \/ OpenAddOpportunity \/ OpenEditOpportunity \/ CloseOpportunity
    \/ SaveOpportunity({OneForm}, 1)
    \/ OpenAddTask \/ OpenEditTask \/ CloseTask \/ SaveTask(1)
    \/ DeleteOpportunity(MaxUndoDepth) \/ DeleteTask(MaxUndoDepth) \/ Undo
    \/ ToggleOpportunity \/ ToggleTask
    \/ BulkDeleteOpportunities(MaxUndoDepth)
    \/ BulkDeleteTasks(MaxUndoDepth)
    \/ BulkUpdateOpportunityStatus({"Won"})
    \/ BulkUpdateTaskStatus({"Completed"})
    \/ SortOpportunities({"dealValue"}) \/ SortTasks({"status"})
    \/ HandleDrop({"Negotiation"}) \/ Import({EmptyFile}) \/ Export

SpecAll == Init /\ [][NextAll]_vars

(***************************************************************************)
(* SpecUndo: a long session on the opportunities table: a record is added  *)
(* to the empty table, the last row is deleted, deletes are undone, again  *)
(* and again until the undo stack is full and beyond.                      *)
(***************************************************************************)
DeleteLastOpportunity(depth) ==
    /\ noModal /\ Len(undoStack) < depth /\ opportunities # <<>>
    /\ \E confirmed \in BOOLEAN :
           deleteOpportunity(opportunities[Len(opportunities)].id, confirmed)

NextUndo ==
    \/ opportunities = <<>> /\ OpenAddOpportunity
    \/ CloseOpportunity
    \/ SaveOpportunity({OneForm}, MAX_UNDO_STACK + MaxEvictions)
    \/ DeleteLastOpportunity(MAX_UNDO_STACK + 1)
    \/ Undo

SpecUndo == Init /\ [][NextUndo]_vars

(***************************************************************************)
(* SpecApi: the delete handlers with any id as argument.  The row buttons  *)
(* of a table whose last render threw (lines 1329-1339 and 1390-1400 read  *)
(* fields of every record before the rows are replaced) keep the ids of    *)
(* records that are gone.                                                  *)
(***************************************************************************)
DeleteOpportunityById(depth) ==
    /\ noModal /\ Len(undoStack) < depth
    /\ \E id \in AllOppIds, confirmed \in BOOLEAN :
           deleteOpportunity(id, confirmed)
DeleteTaskById(depth) ==
    /\ noModal /\ Len(undoStack) < depth
    /\ \E id \in AllTaskIds, confirmed \in BOOLEAN :
           deleteTask(id, confirmed)

NextApi ==
    \/ OpenAddOpportunity \/ CloseOpportunity
    \/ SaveOpportunity(OppForms, MaxOppIds)
    \/ OpenAddTask \/ CloseTask \/ SaveTask(MaxTaskIds)
    \/ DeleteOpportunityById(MaxUndoDepth) \/ DeleteTaskById(MaxUndoDepth)

SpecApi == Init /\ [][NextApi]_vars

(***************************************************************************)
(* SpecRestore: the delete handlers with any id as argument, and undo of   *)
(* what they recorded.  The session is followed while every element of    *)
(* the collections is a record: on an undefined element the callbacks     *)
(* that read a field of each element (lines 1170, 1183, 1300, 1306, 1451)  *)
(* throw.                                                                  *)
(***************************************************************************)
allRecords == ~renderThrows(opportunities) /\ ~renderThrows(tasks)

NextRestore ==
    \/ allRecords /\ OpenAddOpportunity
    \/ allRecords /\ SaveOpportunity({OneForm}, MaxOppIds)
    \/ allRecords /\ OpenAddTask
    \/ allRecords /\ SaveTask(MaxTaskIds)
    \/ allRecords /\ DeleteOpportunityById(MaxUndoDepth)
    \/ allRecords /\ DeleteTaskById(MaxUndoDepth)
    \/ Undo

SpecRestore == Init /\ [][NextRestore]_vars

(***************************************************************************)
(* SpecEdit: records are added from one form and revised in the Edit       *)
(* forms.                                                                  *)
(***************************************************************************)
SubmitOpportunity(addForms, editForms, issued) ==
    /\ opportunityModal
    /\ IF currentEditingOpportunity = NULL
       THEN /\ nextOppId <= issued
            /\ \E form \in addForms : saveOpportunity(form)
       ELSE \E form \in editForms : saveOpportunity(form)
SubmitTask(issued) ==
    /\ taskModal
    /\ IF currentEditingTask = NULL
       THEN /\ nextTaskId <= issued
            /\ \E form \in TaskForms(taskOpportunityOptions) : saveTask(form)
       ELSE \E form \in RevisedTaskForms(taskOpportunityOptions) :
                saveTask(form)

NextEdit ==
    \/ OpenAddOpportunity \/ OpenEditOpportunity \/ CloseOpportunity
    \/ SubmitOpportunity({OneForm}, {RevisedForm}, MaxOppIds)
    \/ OpenAddTask \/ OpenEditTask \/ CloseTask \/ SubmitTask(MaxTaskIds)

SpecEdit == Init /\ [][NextEdit]_vars

(***************************************************************************)
(* SpecCollide: Math.random() and Date.now() may give the generators a     *)
(* value they gave before, so a generated id is any id of a small set.     *)
(***************************************************************************)
SaveGeneratedOpportunity(issued) ==
    /\ opportunityModal
    /\ currentEditingOpportunity = NULL => nextOppId <= issued
    /\ \E form \in OppForms, generated \in 1..issued :
           saveOpportunityWithId(form, generated)
SaveGeneratedTask(issued) ==
    /\ taskModal
    /\ currentEditingTask = NULL => nextTaskId <= issued
    /\ \E form \in TaskForms(taskOpportunityOptions), generated \in 1..issued :
           saveTaskWithId(form, generated)

NextCollide ==
    \/ OpenAddOpportunity \/ OpenEditOpportunity \/ CloseOpportunity
    \/ SaveGeneratedOpportunity(MaxOppIds)
    \/ OpenAddTask \/ OpenEditTask \/ CloseTask
    \/ SaveGeneratedTask(MaxTaskIds)

SpecCollide == Init /\ [][NextCollide]_vars

(***************************************************************************)
(* SpecBulk: records are added, selected by their checkboxes, and the bulk *)
(* action bar deletes them or sets their status; undo puts them back.      *)
(***************************************************************************)
NextBulk ==
    \/ OpenAddOpportunity \/ SaveOpportunity({OneForm}, 2)
    \/ OpenAddTask \/ SaveTask(MaxTaskIds)
    \/ ToggleOpportunity \/ ToggleTask
    \/ BulkDeleteOpportunities(1)
    \/ BulkDeleteTasks(1)
    \/ Undo

SpecBulk == Init /\ [][NextBulk]_vars

(***************************************************************************)
(* SpecStatus: records are added and selected, a task is deleted, and the  *)
(* bulk action bar sets the status of the selection.                       *)
(***************************************************************************)
NextStatus ==
    \/ OpenAddOpportunity \/ SaveOpportunity({OneForm}, 2)
    \/ OpenAddTask \/ SaveTask(MaxTaskIds)
    \/ ToggleOpportunity \/ ToggleTask
    \/ DeleteTask(1)
    \/ BulkUpdateOpportunityStatus({"Won"})
    \/ BulkUpdateTaskStatus({"Completed"})

SpecStatus == Init /\ [][NextStatus]_vars

(***************************************************************************)
(* SpecViews: the tabs are switched; on the kanban tab a card is dragged   *)
(* to a column or double-clicked and edited.                               *)
(***************************************************************************)
SwitchTab(tabs) == noModal /\ \E tabName \in tabs : switchTab(tabName)
\* dblclick on a card of the board as it is displayed
EditFromCard ==
    /\ noModal /\ activeTab = "kanban"
    /\ \E stage \in Stages : \E i \in DOMAIN kanbanBoard[stage] :
           openEditOpportunityModal(kanbanBoard[stage][i].id)
DropCard(stages) ==
    /\ noModal /\ activeTab = "kanban"
    /\ \E stage \in Stages : \E i \in DOMAIN kanbanBoard[stage] :
           \E target \in stages : handleDrop(kanbanBoard[stage][i].id, target)

\* the Add button, taken to be on the opportunities tab only
AddFromTable == activeTab = "opportunities" /\ OpenAddOpportunity

NextViews ==
    \/ SwitchTab(Tabs)
    \/ AddFromTable \/ CloseOpportunity
    \/ SubmitOpportunity(OppForms, {RevisedForm}, MaxOppIds)
    \/ EditFromCard
    \/ DropCard({"Qualified", "Negotiation"})

SpecViews == Init /\ [][NextViews]_vars

\* SpecDrop: cards are dragged between the columns of the board; an import
\* (Ctrl+I) replaces the collections and leaves the board as displayed.
NextDrop ==
    \/ SwitchTab({"opportunities", "kanban"})
    \/ AddFromTable
    \/ SubmitOpportunity(OppForms, {RevisedForm}, MaxOppIds)
    \/ OpenAddTask \/ SaveTask(1)
    \/ DropCard({"Qualified", "Negotiation"})
    \/ Import({EmptyFile})

SpecDrop == Init /\ [][NextDrop]_vars

(***************************************************************************)
(* SpecSort: records are added and the column headers of the two tables    *)
(* are clicked.                                                            *)
(***************************************************************************)
NextSort ==
    \/ OpenAddOpportunity \/ SaveOpportunity(OppForms, MaxOppIds)
    \/ OpenAddTask \/ SaveTask(MaxTaskIds)
    \/ SortOpportunities({"name", "status"})
    \/ SortTasks({"id", "status"})

SpecSort == Init /\ [][NextSort]_vars

\* SpecBant: one opportunity is added, with any BANT scores the form can
\* hold (an empty field reads as NaN).
BantFields == {NaN} \cup 1..5

BantForms ==
    { [OneForm EXCEPT !.budget = b, !.authority = a, !.need = n,
                      !.timeline = t] :
          b \in BantFields, a \in BantFields, n \in BantFields,
          t \in BantFields }

NextBant == OpenAddOpportunity \/ SaveOpportunity(BantForms, 1)

SpecBant == Init /\ [][NextBant]_vars

\* SpecRevenue: one opportunity is added and then edited, with deal values
\* and probabilities of the claim's range.
DealValues == {0, 1, 100, 250, 500, 1000, 2500}
Probabilities == {0, 1, 25, 40, 50, 60, 99, 100}

RevenueForms ==
    { [OneForm EXCEPT !.dealValue = d, !.probability = p] :
          d \in DealValues, p \in Probabilities }

NextRevenue ==
    \/ OpenAddOpportunity \/ OpenEditOpportunity
    \/ SubmitOpportunity(RevenueForms, RevenueForms, 1)

SpecRevenue == Init /\ [][NextRevenue]_vars

\* SpecAgenda: tasks with different names are added, sorted, deleted and
\* restored, and the calendar tab is opened on them.
NamedTaskForms(options, names) ==
    { [form EXCEPT !.taskName = name] :
          form \in TaskForms(options), name \in names }

SaveNamedTask(names, issued) ==
    /\ taskModal
    /\ currentEditingTask = NULL => nextTaskId <= issued
    /\ \E form \in NamedTaskForms(taskOpportunityOptions, names) :
           saveTask(form)

NextAgenda ==
    \/ OpenAddOpportunity \/ SaveOpportunity({OneForm}, 1)
    \/ OpenAddTask \/ SaveNamedTask({"Demo", "Call"}, MaxTaskIds)
    \/ SortTasks({"taskName"})
    \/ DeleteTask(1) \/ Undo
    \/ SwitchTab({"tasks", "calendar"})

SpecAgenda == Init /\ [][NextAgenda]_vars

(***************************************************************************)
(* SpecQuota: the storage fills up and is freed between the handlers, so   *)
(* that localStorage.setItem throws for some keys.                         *)
(***************************************************************************)
\* the environment: from now on setItem throws for exactly these keys
quotaChanges(keys) ==
    /\ rejects' = keys
    /\ preDelete' = NoSnapshot
    /\ UNCHANGED <<storeVars, undoStack, oppModalVars, taskModalVars,
                   selectionVars, idVars, sortVars, viewVars, toast,
                   storedVersion, load, timezoneOffset, storageLength,
                   debounced>>

QuotaChanges ==
    \E keys \in SUBSET {"opportunities", "tasks"} : quotaChanges(keys)

NextQuota ==
    \/ OpenAddOpportunity \/ OpenEditOpportunity
    \/ SubmitOpportunity({OneForm}, {RevisedForm}, MaxOppIds)
    \/ OpenAddTask \/ SaveTask(1)
    \/ DeleteTask(1)
    \/ QuotaChanges

SpecQuota == Init /\ [][NextQuota]_vars

(***************************************************************************)
(* SpecRoundTrip: records are added, edited and sorted, and the tracker is *)
(* exported and the exported file imported again.                          *)
(***************************************************************************)
\* Ctrl+E and then Ctrl+I with the file just downloaded; the export changes
\* nothing but the toast, which the import replaces
ExportThenImport ==
    /\ noModal
    /\ \E confirmed \in BOOLEAN :
           importFromJSON(exportedData(opportunities, tasks), confirmed)

NextRoundTrip ==
    \/ OpenAddOpportunity \/ OpenEditOpportunity
    \/ SubmitOpportunity(OppForms, {RevisedForm}, MaxOppIds)
    \/ OpenAddTask \/ SaveTask(MaxTaskIds)
    \/ SortOpportunities({"name"})
    \/ Export \/ ExportThenImport

SpecRoundTrip == Init /\ [][NextRoundTrip]_vars

(***************************************************************************)
(* SpecAbort: files that the import rejects, and imports that the user     *)
(* declines, in a session that holds records and an undo action.           *)
(***************************************************************************)
NextAbort ==
    \/ OpenAddOpportunity \/ SaveOpportunity({OneForm}, 1)
    \/ OpenAddTask \/ SaveTask(MaxTaskIds)
    \/ DeleteTask(1)
    \/ Import(AbortFiles)

SpecAbort == Init /\ [][NextAbort]_vars

(***************************************************************************)
(* SpecLoad: loadDataFromStorage, step by step, on what a browser may hold *)
(* in localStorage when the page is opened.  A blob is kept parsed, as a    *)
(* sequence of records; a key that was never written and a blob that is    *)
(* not JSON are kept as sequences of one marker record.                    *)
(***************************************************************************)
\* localStorage.getItem returns null for the key
Absent == <<[absent |-> TRUE]>>
\* JSON.parse throws on the blob
Unparseable == <<[unparseable |-> TRUE]>>

\* what the two blobs and the version marker may be when the page opens
StoredOpportunityBlobs == {Absent, Unparseable, <<>>, <<BackupOpportunity>>}
StoredTaskBlobs == {Absent, Unparseable, <<BackupTask>>}
StoredVersions == {"null", "0", "1", "2", "3", "abc"}

\* stored ? JSON.parse(stored) : []
parseOrEmpty(stored) == IF stored = Absent THEN <<>> ELSE stored

\* parseInt(storedVersion)
parseInt(str) ==
    CASE str = "0" -> 0
      [] str = "1" -> 1
      [] str = "2" -> 2
      [] str = "3" -> 3
      [] OTHER -> NaN

\* storedVersion ? parseInt(storedVersion) : 1
currentVersionOf(str) == IF str = "null" THEN 1 ELSE parseInt(str)

\* a < b on numbers: false when either is NaN
lessThan(a, b) == a # NaN /\ b # NaN /\ a < b

\* A catch branch that keeps what was parsed before the exception.  C27
\* tells it from caught.
caught_keepsParsed(parsedOpportunities) ==
    [opportunities |-> parsedOpportunities, tasks |-> <<>>]

\* the catch branch of loadDataFromStorage: opportunities = []; tasks = []
caught(parsedOpportunities) == [opportunities |-> <<>>, tasks |-> <<>>]

LoadFailed == [at |-> "ready", v |-> 0, failed |-> TRUE]

\* what the load leaves alone
sessionVars ==
    <<undoStack, oppModalVars, taskModalVars, selectionVars, idVars, sortVars,
      viewVars, rejects, timezoneOffset, storageLength, debounced,
      preDelete>>

\* lines 58-66: the blobs are read and parsed and the version is compared
loadRead ==
    /\ load.at = "read"
    /\ IF storedOpportunities = Unparseable \/ storedTasks = Unparseable
       THEN LET parsed == IF storedOpportunities = Unparseable
                          THEN opportunities
                          ELSE parseOrEmpty(storedOpportunities)
            IN  /\ opportunities' = caught(parsed).opportunities
                /\ tasks' = caught(parsed).tasks
                /\ load' = LoadFailed
       ELSE /\ opportunities' = parseOrEmpty(storedOpportunities)
            /\ tasks' = parseOrEmpty(storedTasks)
            /\ load' =
                   IF lessThan(currentVersionOf(storedVersion), DATA_VERSION)
                   THEN [at |-> "migrate",
                         v |-> currentVersionOf(storedVersion),
                         failed |-> FALSE]
                   ELSE Loaded
    /\ UNCHANGED <<storedOpportunities, storedTasks, storedVersion, toast,
                   sessionVars>>

\* one turn of the loop of migrateData(currentVersion, DATA_VERSION)
loadMigrate ==
    /\ load.at = "migrate"
    /\ IF load.v < DATA_VERSION
       THEN LET result == IF load.v = 1
                          THEN migrations(load.v,
                                   [opportunities |-> opportunities,
                                    tasks |-> tasks])
                          ELSE [opportunities |-> opportunities,
                                tasks |-> tasks]
            IN  /\ opportunities' = result.opportunities
                /\ tasks' = result.tasks
                /\ load' = [load EXCEPT !.v = load.v + 1]
       ELSE /\ load' = [load EXCEPT !.at = "saveOpportunities"]
            /\ UNCHANGED <<opportunities, tasks>>
    /\ UNCHANGED <<storedOpportunities, storedTasks, storedVersion, toast,
                   sessionVars>>

\* saveOpportunitiesToStorage() at the end of migrateData
loadSaveOpportunities ==
    /\ load.at = "saveOpportunities"
    /\ storedOpportunities' =
           save("opportunities", storedOpportunities, opportunities)
    /\ toast' = alerted({"opportunities"}, toast)
    /\ load' = [load EXCEPT !.at = "saveTasks"]
    /\ UNCHANGED <<opportunities, tasks, storedTasks, storedVersion,
                   sessionVars>>

\* saveTasksToStorage() at the end of migrateData
loadSaveTasks ==
    /\ load.at = "saveTasks"
    /\ storedTasks' = save("tasks", storedTasks, tasks)
    /\ toast' = alerted({"tasks"}, toast)
    /\ load' = [load EXCEPT !.at = "setVersion"]
    /\ UNCHANGED <<opportunities, tasks, storedOpportunities, storedVersion,
                   sessionVars>>

\* localStorage.setItem('dataVersion', DATA_VERSION.toString()), inside the
\* try of loadDataFromStorage
loadSetVersion ==
    /\ load.at = "setVersion"
    /\ IF "dataVersion" \in rejects
       THEN /\ opportunities' = caught(opportunities).opportunities
            /\ tasks' = caught(opportunities).tasks
            /\ load' = LoadFailed
            /\ UNCHANGED storedVersion
       ELSE /\ storedVersion' = "2"
            /\ load' = Loaded
            /\ UNCHANGED <<opportunities, tasks>>
    /\ UNCHANGED <<storedOpportunities, storedTasks, toast, sessionVars>>

\* the page is opened: nothing is in memory, loadDataFromStorage starts
InitLoad ==
    /\ opportunities = <<>>
    /\ tasks = <<>>
    /\ undoStack = <<>>
    /\ storedOpportunities \in StoredOpportunityBlobs
    /\ storedTasks \in StoredTaskBlobs
    /\ storedVersion \in StoredVersions
    /\ load = [at |-> "read", v |-> 0, failed |-> FALSE]
    /\ rejects \in SUBSET {"opportunities", "dataVersion"}
    /\ currentEditingOpportunity = NULL
    /\ currentEditingTask = NULL
    /\ opportunityModal = FALSE
    /\ taskModal = FALSE
    /\ taskOpportunityOptions = {}
    /\ selectedOpportunities = <<>>
    /\ selectedTasks = <<>>
    /\ opportunitySortColumn = "null"
    /\ opportunitySortDirection = "asc"
    /\ taskSortColumn = "null"
    /\ taskSortDirection = "asc"
    /\ nextOppId = 1
    /\ nextTaskId = 1
    /\ toast = Toast("", 0)
    /\ preDelete = NoSnapshot
    /\ activeTab = "dashboard"
    /\ kanbanBoard = [stage \in Stages |-> <<>>]
    /\ calendarGrid = [day \in Days |-> NoIndicators]
    /\ timezoneOffset = 0
    /\ storageLength = MarkerOnly
    /\ debounced = [box \in SearchBoxes |-> NoTimer]

NextLoad ==
    \/ loadRead \/ loadMigrate \/ loadSaveOpportunities \/ loadSaveTasks
    \/ loadSetVersion

SpecLoad == InitLoad /\ [][NextLoad]_vars

(***************************************************************************)
(* SpecCalendar: the calendar tab is opened on the tasks a session has     *)
(* stored, in a browser whose time zone is behind, at or ahead of UTC.     *)
(***************************************************************************)
\* hours that local time is ahead of UTC
TimezoneOffsets == {-5, 0, 2}

\* the tasks saved so far: ids in the order of creation, each with a name and
\* a due date of the form, or none
CalendarTasks ==
    UNION { [1..n -> [taskName : {"Demo", "demo"}, dueDate : DueDates]] :
                n \in 0..MaxCalendarTasks }

calendarTask(i, entered) ==
    [id |-> i, opportunityId |-> NULL, taskName |-> entered.taskName,
     dueDate |-> entered.dueDate, status |-> "Not Started"]

InitCalendar ==
    /\ opportunities = <<>>
    /\ \E entered \in CalendarTasks :
           tasks = [i \in DOMAIN entered |-> calendarTask(i, entered[i])]
    /\ undoStack = <<>>
    /\ storedOpportunities = Stringify(opportunities)
    /\ storedTasks = Stringify(tasks)
    /\ storedVersion = "2"
    /\ load = Loaded
    /\ rejects = {}
    /\ timezoneOffset \in TimezoneOffsets
    /\ storageLength = MarkerOnly
    /\ debounced = [box \in SearchBoxes |-> NoTimer]
    /\ currentEditingOpportunity = NULL
    /\ currentEditingTask = NULL
    /\ opportunityModal = FALSE
    /\ taskModal = FALSE
    /\ taskOpportunityOptions = {}
    /\ selectedOpportunities = <<>>
    /\ selectedTasks = <<>>
    /\ opportunitySortColumn = "null"
    /\ opportunitySortDirection = "asc"
    /\ taskSortColumn = "null"
    /\ taskSortDirection = "asc"
    /\ nextOppId = 1
    /\ nextTaskId = Len(tasks) + 1
    /\ toast = Toast("", 0)
    /\ preDelete = NoSnapshot
    /\ activeTab = "dashboard"
    /\ kanbanBoard = [stage \in Stages |-> <<>>]
    /\ calendarGrid = [day \in Days |-> NoIndicators]

NextCalendar == SwitchTab({"tasks", "calendar"})

SpecCalendar == InitCalendar /\ [][NextCalendar]_vars

(***************************************************************************)
(* SpecCapacity: checkStorageQuota on a localStorage that is nearly full.  *)
(* Lengths are string lengths (UTF-16 code units), as the code adds them.  *)
(***************************************************************************)
\* key.length of the keys of the tracker and of a key that another page of
\* the same origin has written
keyLength(key) ==
    CASE key = "opportunities" -> 13
      [] key = "tasks" -> 5
      [] key = "dataVersion" -> 11
      [] key = "theme" -> 5

\* localStorage[key].length + key.length of a key that is there
entrySize(key) ==
    IF key \in DOMAIN storageLength
    THEN storageLength[key] + keyLength(key)
    ELSE 0

\* the loop over the keys of localStorage
totalSize ==
    entrySize("opportunities") + entrySize("tasks") + entrySize("dataVersion")
        + entrySize("theme")

\* estimatedLimit = 5 * 1024 KB, in characters
estimatedLimit == 5 * 1024 * 1024

\* usagePercent > 80, usagePercent = (sizeInKB / estimatedLimit) * 100
usageExceeds(size) == size * 100 > 80 * estimatedLimit

StorageWarning == Toast("Storage is nearly full", 0)

checkStorageQuota ==
    /\ toast' = IF usageExceeds(totalSize) THEN StorageWarning ELSE toast
    /\ preDelete' = NoSnapshot
    /\ UNCHANGED <<storeVars, undoStack, oppModalVars, taskModalVars,
                   selectionVars, idVars, sortVars, viewVars, envVars>>

\* the lengths of the stored values when the page is opened
StoredLengths ==
    UNION { [keys -> {1, 2, 100, 2097152, 4194174, 4194272}] :
                keys \in { {"opportunities", "tasks", "dataVersion"},
                           {"opportunities", "tasks", "dataVersion", "theme"} } }

InitCapacity ==
    /\ opportunities = <<>>
    /\ tasks = <<>>
    /\ undoStack = <<>>
    /\ storedOpportunities = <<>>
    /\ storedTasks = <<>>
    /\ storedVersion = "2"
    /\ load = Loaded
    /\ rejects = {}
    /\ timezoneOffset = 0
    /\ storageLength \in StoredLengths
    /\ storageLength["dataVersion"] = 1
    /\ debounced = [box \in SearchBoxes |-> NoTimer]
    /\ currentEditingOpportunity = NULL
    /\ currentEditingTask = NULL
    /\ opportunityModal = FALSE
    /\ taskModal = FALSE
    /\ taskOpportunityOptions = {}
    /\ selectedOpportunities = <<>>
    /\ selectedTasks = <<>>
    /\ opportunitySortColumn = "null"
    /\ opportunitySortDirection = "asc"
    /\ taskSortColumn = "null"
    /\ taskSortDirection = "asc"
    /\ nextOppId = 1
    /\ nextTaskId = 1
    /\ toast = Toast("", 0)
    /\ preDelete = NoSnapshot
    /\ activeTab = "dashboard"
    /\ kanbanBoard = [stage \in Stages |-> <<>>]
    /\ calendarGrid = [day \in Days |-> NoIndicators]

NextCapacity == checkStorageQuota

SpecCapacity == InitCapacity /\ [][NextCapacity]_vars

(***************************************************************************)
(* SpecCrash: the tab is closed while deleteOpportunity runs, between its  *)
(* two writes, and the page is opened again.                               *)
(***************************************************************************)
\* the tab is closed: what the page held in memory is gone, and the next
\* thing to run is loadDataFromStorage of the page opened again
pageClosed ==
    /\ opportunities' = <<>>
    /\ tasks' = <<>>
    /\ undoStack' = <<>>
    /\ load' = [at |-> "read", v |-> 0, failed |-> FALSE]
    /\ currentEditingOpportunity' = NULL
    /\ currentEditingTask' = NULL
    /\ opportunityModal' = FALSE
    /\ taskModal' = FALSE
    /\ taskOpportunityOptions' = {}
    /\ selectedOpportunities' = <<>>
    /\ selectedTasks' = <<>>
    /\ opportunitySortColumn' = "null"
    /\ opportunitySortDirection' = "asc"
    /\ taskSortColumn' = "null"
    /\ taskSortDirection' = "asc"
    /\ toast' = Toast("", 0)
    /\ preDelete' = NoSnapshot
    /\ activeTab' = "dashboard"
    /\ kanbanBoard' = [stage \in Stages |-> <<>>]
    /\ calendarGrid' = [day \in Days |-> NoIndicators]
    /\ debounced' = [box \in SearchBoxes |-> NoTimer]
    /\ UNCHANGED <<idVars, storedVersion, rejects, timezoneOffset,
                   storageLength>>

\* A deleteOpportunity that writes the tasks first and is cut off before it
\* writes the opportunities.  C36 tells it from crashInDeleteOpportunity.
crashInDeleteOpportunity_tasksFirst(id) ==
    /\ storedTasks' = save("tasks", storedTasks, withoutTasksOf(tasks, id))
    /\ UNCHANGED storedOpportunities
    /\ pageClosed

\* deleteOpportunity(id), confirmed, as far as saveOpportunitiesToStorage();
\* the tab is closed before tasks is filtered and saved
crashInDeleteOpportunity(id) ==
    /\ storedOpportunities' =
           save("opportunities", storedOpportunities,
                withoutOpportunity(opportunities, id))
    /\ UNCHANGED storedTasks
    /\ pageClosed

CrashInDeleteOpportunity ==
    noModal /\ \E id \in Ids(opportunities) : crashInDeleteOpportunity(id)

NextCrash ==
    \/ /\ load = Loaded
       /\ \/ OpenAddOpportunity \/ SaveOpportunity({OneForm}, MaxOppIds)
          \/ OpenAddTask \/ SaveTask(MaxTaskIds)
          \/ DeleteOpportunity(1)
          \/ CrashInDeleteOpportunity
    \/ loadRead

SpecCrash == Init /\ [][NextCrash]_vars

(***************************************************************************)
(* SpecSearch: input events in the two search boxes, the passage of time   *)
(* and the timeouts of debounce.  A timeout whose delay has passed runs    *)
(* before more time passes.                                                *)
(***************************************************************************)
\* the milliseconds that pass in one step of time
TickMs == 100

\* A debounced listener that leaves a pending timeout alone.  C37 tells it
\* from debouncedInput.
debouncedInput_keepsTimeout(box) ==
    /\ debounced' =
           [debounced EXCEPT ![box] =
               IF debounced[box].pending
               THEN [@ EXCEPT !.since = 0, !.events = @ + 1]
               ELSE [pending |-> TRUE, remaining |-> DebounceDelay,
                     since |-> 0, ran |-> 0, events |-> 1]]
    /\ preDelete' = NoSnapshot
    /\ UNCHANGED <<storeVars, undoStack, oppModalVars, taskModalVars,
                   selectionVars, idVars, sortVars, viewVars, toast,
                   storedVersion, load, rejects, timezoneOffset,
                   storageLength>>

\* the function debounce returns: clearTimeout(timeoutId); timeoutId =
\* setTimeout(() => func.apply(this, args), delay)
debouncedInput(box) ==
    /\ debounced' =
           [debounced EXCEPT ![box] =
               [pending |-> TRUE, remaining |-> DebounceDelay, since |-> 0,
                ran |-> IF debounced[box].pending THEN debounced[box].ran
                        ELSE 0,
                events |-> IF debounced[box].pending
                           THEN debounced[box].events + 1
                           ELSE 1]]
    /\ preDelete' = NoSnapshot
    /\ UNCHANGED <<storeVars, undoStack, oppModalVars, taskModalVars,
                   selectionVars, idVars, sortVars, viewVars, toast,
                   storedVersion, load, rejects, timezoneOffset,
                   storageLength>>

\* the timeout's callback: func (renderOpportunities, renderTasks) runs
timeout(box) ==
    /\ debounced[box].pending /\ debounced[box].remaining = 0
    /\ debounced' =
           [debounced EXCEPT ![box].pending = FALSE,
                             ![box].ran = debounced[box].ran + 1]
    /\ preDelete' = NoSnapshot
    /\ UNCHANGED <<storeVars, undoStack, oppModalVars, taskModalVars,
                   selectionVars, idVars, sortVars, viewVars, toast,
                   storedVersion, load, rejects, timezoneOffset,
                   storageLength>>

\* TickMs milliseconds pass with no event
timePasses ==
    /\ \A box \in SearchBoxes :
           debounced[box].pending => debounced[box].remaining > 0
    /\ debounced' =
           [box \in SearchBoxes |->
               LET timer == debounced[box]
               IN  [timer EXCEPT
                       !.remaining = IF timer.pending /\ @ > TickMs
                                     THEN @ - TickMs ELSE 0,
                       !.since = IF @ + TickMs < DebounceDelay
                                 THEN @ + TickMs ELSE DebounceDelay]]
    /\ debounced' # debounced
    /\ preDelete' = NoSnapshot
    /\ UNCHANGED <<storeVars, undoStack, oppModalVars, taskModalVars,
                   selectionVars, idVars, sortVars, viewVars, toast,
                   storedVersion, load, rejects, timezoneOffset,
                   storageLength>>

SearchInput(burst) ==
    \E box \in SearchBoxes :
        /\ debounced[box].pending => debounced[box].events < burst
        /\ debouncedInput(box)

Timeout == \E box \in SearchBoxes : timeout(box)

NextSearch == SearchInput(MaxBurst) \/ Timeout \/ timePasses

SpecSearch == Init /\ [][NextSearch]_vars

(***************************************************************************)
(* Properties.                                                             *)
(***************************************************************************)
\* s without the elements at the indices in dropped, the others in order
Rest(s, dropped) ==
    LET F[i \in 0..Len(s)] ==
            IF i = 0 THEN <<>>
            ELSE IF i \in dropped THEN F[i - 1] ELSE Append(F[i - 1], s[i])
    IN  F[Len(s)]

Last(s) == s[Len(s)]

\* C1: a confirmed deleteOpportunity(id) of an opportunity that exists
\* removes that opportunity and no other, removes the tasks whose
\* opportunityId is id and no other, and leaves the remaining records as
\* they were, in their order.
C1_DeleteOpportunityCascades ==
    [][\A id \in AllOppIds :
          (id \in Ids(opportunities) /\ deleteOpportunity(id, TRUE)) =>
              /\ opportunities' =
                     Rest(opportunities, {i \in DOMAIN opportunities :
                                             opportunities[i].id = id})
              /\ Len(opportunities') = Len(opportunities) - 1
              /\ tasks' =
                     Rest(tasks, {i \in DOMAIN tasks :
                                     tasks[i].opportunityId = id})]_vars

\* an opportunity with a task was just deleted; another opportunity and a
\* task of it are still there
C1_Witness ==
    /\ preDelete.phase = "deleted"
    /\ Len(opportunities) = Len(preDelete.opportunities) - 1
    /\ Len(opportunities) >= 1
    /\ Len(tasks) >= 1
    /\ Len(tasks) < Len(preDelete.tasks)

\* C2: after deleteOpportunity(id) and, next, undo(), both collections and
\* both stored blobs are what they were before the delete, order included.
C2_DeleteThenUndoRestores ==
    preDelete.phase = "undone" =>
        /\ opportunities = preDelete.opportunities
        /\ tasks = preDelete.tasks
        /\ storedOpportunities = Stringify(preDelete.opportunities)
        /\ storedTasks = Stringify(preDelete.tasks)

\* C3: after any sequence of operations every task's opportunityId is the id
\* of an opportunity of the collection.
C3_NoOrphanedTask ==
    \A i \in DOMAIN tasks : tasks[i].opportunityId \in Ids(opportunities)

\* C4: every stored opportunity carries expectedRevenue = dealValue *
\* probability / 100, bantTotal = the sum of its four scores, bantPercent =
\* bantTotal / 20 * 100 and the bantSummary of that percentage.
C4_DerivedFieldsConsistent ==
    \A i \in DOMAIN opportunities :
        LET o == opportunities[i]
            total == o.bant.budget + o.bant.authority + o.bant.need
                         + o.bant.timeline
        IN  /\ o.expectedRevenue = o.dealValue * o.probability
            /\ o.bantTotal = total
            /\ o.bantPercent * MAX_BANT_SCORE = total * 100
            /\ o.bantSummary = (IF o.bantPercent >= HOT THEN "Hot"
                                ELSE IF o.bantPercent >= WARM THEN "Warm"
                                ELSE "Cold")

\* opportunity id was issued, and its record is neither in the collection nor
\* on the undo stack
Lost(id) ==
    /\ id < nextOppId
    /\ id \notin Ids(opportunities)
    /\ \A i \in DOMAIN undoStack : undoStack[i].opportunity.id # id

\* C5: the undo stack never holds more than MAX_UNDO_STACK actions; a push
\* onto a full stack drops the oldest action and keeps the others with the
\* new one on top; a record whose action was dropped never comes back.
C5_UndoStackCapacity ==
    /\ [](Len(undoStack) <= MAX_UNDO_STACK)
    /\ [][\A id \in Ids(opportunities) :
              (Len(undoStack) = MAX_UNDO_STACK /\ deleteOpportunity(id, TRUE))
                  => /\ Len(undoStack') = MAX_UNDO_STACK
                     /\ SubSeq(undoStack', 1, MAX_UNDO_STACK - 1)
                            = Tail(undoStack)
                     /\ Last(undoStack').opportunity.id = id]_vars
    /\ [][\A id \in 1..(MAX_UNDO_STACK + MaxEvictions) :
              Lost(id) => Lost(id)']_vars

\* the eleventh delete has dropped an action, and undo has run since
C5_Witness ==
    /\ Len(undoStack) = MAX_UNDO_STACK - 1
    /\ toast.text = "Opportunity restored"
    /\ \E id \in 1..(MAX_UNDO_STACK + MaxEvictions) : Lost(id)

\* C6: undo on a non-empty stack takes the most recent action off the
\* stack and nothing else, appends the entities of that action and nothing
\* else to the collections, and writes the collections it touched; every
\* delete leaves its own action on top, so that consecutive undos restore
\* the deletes latest first.
C6_UndoTakesMostRecent ==
    [][/\ (undoStack # <<>> /\ undo) =>
              LET action == Last(undoStack)
                  opps == IF action.type = "delete_opportunity"
                          THEN <<action.opportunity>>
                          ELSE IF action.type = "bulk_delete_opportunities"
                          THEN action.opportunities ELSE <<>>
                  ts == IF action.type = "delete_task"
                        THEN <<action.task>> ELSE action.tasks
              IN  /\ Len(undoStack') = Len(undoStack) - 1
                  /\ undoStack' = SubSeq(undoStack, 1, Len(undoStack) - 1)
                  /\ opportunities' = opportunities \o opps
                  /\ tasks' = tasks \o ts
                  /\ storedTasks' = Stringify(tasks')
                  /\ opps # <<>> =>
                         storedOpportunities' = Stringify(opportunities')
       /\ \A id \in Ids(opportunities) :
              deleteOpportunity(id, TRUE) =>
                  /\ Last(undoStack').type = "delete_opportunity"
                  /\ Last(undoStack').opportunity = find(opportunities, id)
       /\ \A id \in Ids(tasks) :
              deleteTask(id, TRUE) =>
                  /\ Last(undoStack').type = "delete_task"
                  /\ Last(undoStack').task = find(tasks, id)]_vars

\* an undo has put a record back and an older action is still on the stack
C6_Witness ==
    /\ toast.text \in {"Opportunity restored", "Task restored",
                        "opportunities restored", "tasks restored"}
    /\ Len(undoStack) >= 1
    /\ Len(opportunities) + Len(tasks) >= 1

\* C7: undo on an empty stack reports "Nothing to undo" and changes neither
\* the collections, nor the stored blobs, nor the stack.
C7_UndoOnEmptyStack ==
    [][(undoStack = <<>> /\ undo) =>
          /\ toast' = Toast("Nothing to undo", 0)
          /\ UNCHANGED <<opportunities, tasks, storedOpportunities,
                         storedTasks, undoStack>>]_vars

\* undo has reported an empty stack while records exist
C7_Witness ==
    /\ toast.text = "Nothing to undo"
    /\ undoStack = <<>>
    /\ opportunities # <<>>

\* C8: a confirmed delete by an id that no record has changes nothing: the
\* collections, the stored blobs and the undo stack stay as they are.
C8_DeleteMissingIsNoOp ==
    [][/\ \A id \in AllOppIds :
              (id \notin Ids(opportunities) /\ deleteOpportunity(id, TRUE))
                  => UNCHANGED <<opportunities, tasks, storedOpportunities,
                                 storedTasks, undoStack>>
       /\ \A id \in AllTaskIds :
              (id \notin Ids(tasks) /\ deleteTask(id, TRUE))
                  => UNCHANGED <<opportunities, tasks, storedOpportunities,
                                 storedTasks, undoStack>>]_vars

\* C9: the undo stack grows only in a step of deleteOpportunity, deleteTask,
\* bulkDeleteOpportunities or bulkDeleteTasks; saveOpportunity, saveTask,
\* the bulk status updates, handleDrop, the sorts and the import leave it
\* as it is.
C9_OnlyDeletesPush ==
    [][/\ Len(undoStack') > Len(undoStack) =>
              \/ \E id \in AllOppIds : deleteOpportunity(id, TRUE)
              \/ \E id \in AllTaskIds : deleteTask(id, TRUE)
              \/ bulkDeleteOpportunities(TRUE)
              \/ bulkDeleteTasks(TRUE)
       /\ (\/ \E form \in OppForms : saveOpportunity(form)
           \/ \E form \in TaskForms(taskOpportunityOptions) : saveTask(form)
           \/ \E status \in {"Won"} : bulkUpdateOpportunityStatus(status)
           \/ \E status \in {"Completed"} : bulkUpdateTaskStatus(status)
           \/ \E id \in AllOppIds : handleDrop(id, "Negotiation")
           \/ \E column \in OppSortColumns : sortOpportunities(column)
           \/ \E column \in TaskSortColumns : sortTasks(column)
           \/ \E confirmed \in BOOLEAN : importFromJSON(EmptyFile, confirmed))
              => undoStack' = undoStack]_vars

\* a bulk status update has run while an action waits on the stack (a push
\* after it would have replaced its message), and a kanban drop has moved
\* an opportunity
C9_Witness ==
    /\ undoStack # <<>>
    /\ toast.text = "Updated tasks"
    /\ \E i \in DOMAIN opportunities : opportunities[i].stage = "Negotiation"

\* C10: no two opportunities share an id and no two tasks share an id.
C10_NoDuplicateIds ==
    /\ \A i, j \in DOMAIN opportunities :
           opportunities[i].id = opportunities[j].id => i = j
    /\ \A i, j \in DOMAIN tasks : tasks[i].id = tasks[j].id => i = j

\* C11: a save from the Edit form of a record that is in the collection
\* puts the submitted data, under the same id, at the index the record had;
\* the length of the collection and every other element stay as they were.
C11_EditReplacesInPlace ==
    [][/\ \A form \in {OneForm, RevisedForm} :
              (/\ currentEditingOpportunity \in Ids(opportunities)
               /\ saveOpportunity(form)) =>
                  /\ Len(opportunities') = Len(opportunities)
                  /\ \A i \in DOMAIN opportunities :
                         IF opportunities[i].id = currentEditingOpportunity
                         THEN /\ opportunities'[i].id = opportunities[i].id
                              /\ opportunities'[i].name = form.name
                              /\ opportunities'[i].stage = form.stage
                              /\ opportunities'[i].probability = form.probability
                         ELSE opportunities'[i] = opportunities[i]
       /\ \A form \in RevisedTaskForms(taskOpportunityOptions) :
              (currentEditingTask \in Ids(tasks) /\ saveTask(form)) =>
                  /\ Len(tasks') = Len(tasks)
                  /\ \A i \in DOMAIN tasks :
                         IF tasks[i].id = currentEditingTask
                         THEN /\ tasks'[i].id = tasks[i].id
                              /\ tasks'[i].opportunityId = form.opportunityId
                              /\ tasks'[i].status = form.status
                         ELSE tasks'[i] = tasks[i]]_vars

\* the first of two opportunities and the first of two tasks have been
\* revised and are still first
C11_Witness ==
    /\ Len(opportunities) = 2 /\ Len(tasks) = 2
    /\ opportunities[1].id = 1 /\ opportunities[1].stage = "Proposal"
    /\ opportunities[2].id = 2 /\ opportunities[2].stage = "Lead"
    /\ tasks[1].id = 1 /\ tasks[1].status = "In Progress"
    /\ tasks[2].id = 2 /\ tasks[2].status = "Not Started"

\* C12: a save with no editing id, or with an editing id that no record of
\* the collection has, appends one record under an id the collection did not
\* hold: the collection grows by exactly one and keeps what it had.
C12_SaveWithoutTargetAppends ==
    [][/\ \A form \in OppForms :
              (/\ currentEditingOpportunity \notin Ids(opportunities)
               /\ saveOpportunity(form)) =>
                  /\ Len(opportunities') = Len(opportunities) + 1
                  /\ SubSeq(opportunities', 1, Len(opportunities)) = opportunities
                  /\ Last(opportunities').id \notin Ids(opportunities)
                  /\ Last(opportunities').name = form.name
       /\ \A form \in TaskForms(taskOpportunityOptions) :
              (currentEditingTask \notin Ids(tasks) /\ saveTask(form)) =>
                  /\ Len(tasks') = Len(tasks) + 1
                  /\ SubSeq(tasks', 1, Len(tasks)) = tasks
                  /\ Last(tasks').id \notin Ids(tasks)
                  /\ Last(tasks').opportunityId = form.opportunityId]_vars

\* C13: when the id generated for a new record is the id of a record that
\* is already in the collection, the save ends with the form closed and the
\* collection holds a single record with that id, carrying the submitted
\* data.
C13_CollisionLastWriteWins ==
    [][/\ \A form \in OppForms, generated \in Ids(opportunities) :
              (/\ currentEditingOpportunity = NULL
               /\ saveOpportunityWithId(form, generated)) =>
                  /\ ~opportunityModal'
                  /\ Cardinality({i \in DOMAIN opportunities' :
                         opportunities'[i].id = generated}) = 1
                  /\ \A i \in DOMAIN opportunities' :
                         opportunities'[i].id = generated =>
                             opportunities'[i].name = form.name
       /\ \A form \in TaskForms(taskOpportunityOptions),
            generated \in Ids(tasks) :
              (currentEditingTask = NULL /\ saveTaskWithId(form, generated)) =>
                  /\ ~taskModal'
                  /\ Cardinality({i \in DOMAIN tasks' :
                         tasks'[i].id = generated}) = 1
                  /\ \A i \in DOMAIN tasks' :
                         tasks'[i].id = generated =>
                             tasks'[i].opportunityId = form.opportunityId]_vars

\* the records of s as a bag
BagOf(s) ==
    [x \in {s[i] : i \in DOMAIN s} |->
        Cardinality({i \in DOMAIN s : s[i] = x})]

\* C14: a confirmed bulk delete over a selection removes every selected
\* record; for opportunities it removes the tasks of the removed
\* opportunities and no other task; it pushes exactly one undo action, which
\* holds the removed records; and an undo() of that action puts every record
\* it holds back into its collection.
C14_BulkDeleteOneUndoAction ==
    [][/\ (Len(selectedOpportunities) > 0 /\ bulkDeleteOpportunities(TRUE)) =>
              LET removed == {i \in DOMAIN opportunities :
                                 has(selectedOpportunities, opportunities[i].id)}
                  removedIds == {opportunities[i].id : i \in removed}
                  removedTasks == {i \in DOMAIN tasks :
                                      tasks[i].opportunityId \in removedIds}
              IN  /\ opportunities' = Rest(opportunities, removed)
                  /\ tasks' = Rest(tasks, removedTasks)
                  /\ Len(undoStack') = Len(undoStack) + 1
                  /\ SubSeq(undoStack', 1, Len(undoStack)) = undoStack
                  /\ BagOf(Last(undoStack').opportunities)
                         = BagOf(Rest(opportunities,
                                      DOMAIN opportunities \ removed))
                  /\ BagOf(Last(undoStack').tasks)
                         = BagOf(Rest(tasks, DOMAIN tasks \ removedTasks))
       /\ (Len(selectedTasks) > 0 /\ bulkDeleteTasks(TRUE)) =>
              LET removed == {i \in DOMAIN tasks :
                                 has(selectedTasks, tasks[i].id)}
              IN  /\ tasks' = Rest(tasks, removed)
                  /\ opportunities' = opportunities
                  /\ Len(undoStack') = Len(undoStack) + 1
                  /\ SubSeq(undoStack', 1, Len(undoStack)) = undoStack
                  /\ BagOf(Last(undoStack').tasks)
                         = BagOf(Rest(tasks, DOMAIN tasks \ removed))
       /\ (/\ undoStack # <<>>
           /\ Last(undoStack).type \in
                  {"bulk_delete_opportunities", "bulk_delete_tasks"}
           /\ undo) =>
              LET action == Last(undoStack)
                  held == IF action.type = "bulk_delete_opportunities"
                          THEN action.opportunities ELSE <<>>
              IN  /\ undoStack' = SubSeq(undoStack, 1, Len(undoStack) - 1)
                  /\ Len(opportunities') = Len(opportunities) + Len(held)
                  /\ SubSeq(opportunities', 1, Len(opportunities))
                         = opportunities
                  /\ BagOf(SubSeq(opportunities', Len(opportunities) + 1,
                                  Len(opportunities'))) = BagOf(held)
                  /\ Len(tasks') = Len(tasks) + Len(action.tasks)
                  /\ SubSeq(tasks', 1, Len(tasks)) = tasks
                  /\ BagOf(SubSeq(tasks', Len(tasks) + 1, Len(tasks')))
                         = BagOf(action.tasks)]_vars

\* one of two opportunities was bulk-deleted with its task and undo has put
\* both back, behind the opportunity and the task that stayed
C14_Witness ==
    /\ toast = Toast("opportunities restored", 1)
    /\ undoStack = <<>>
    /\ Len(opportunities) = 2 /\ opportunities[2].id = 1
    /\ Len(tasks) = 2
    /\ tasks[1].opportunityId = 2 /\ tasks[2].opportunityId = 1

\* C15: a bulk status update sets status = newStatus on every selected
\* record that exists and changes nothing else: the other fields of those
\* records, the records that are not selected, the order of the collection,
\* the other collection and the undo stack stay as they were.
C15_BulkUpdateOnlyStatus ==
    [][/\ \A newStatus \in {"Won"} :
              (/\ Len(selectedOpportunities) > 0
               /\ bulkUpdateOpportunityStatus(newStatus)) =>
                  /\ DOMAIN opportunities' = DOMAIN opportunities
                  /\ \A i \in DOMAIN opportunities :
                         IF has(selectedOpportunities, opportunities[i].id)
                         THEN opportunities'[i] =
                                  [opportunities[i] EXCEPT !.status = newStatus]
                         ELSE opportunities'[i] = opportunities[i]
                  /\ tasks' = tasks /\ storedTasks' = storedTasks
                  /\ undoStack' = undoStack
       /\ \A newStatus \in {"Completed"} :
              (Len(selectedTasks) > 0 /\ bulkUpdateTaskStatus(newStatus)) =>
                  /\ DOMAIN tasks' = DOMAIN tasks
                  /\ \A i \in DOMAIN tasks :
                         IF has(selectedTasks, tasks[i].id)
                         THEN tasks'[i] = [tasks[i] EXCEPT !.status = newStatus]
                         ELSE tasks'[i] = tasks[i]
                  /\ opportunities' = opportunities
                  /\ storedOpportunities' = storedOpportunities
                  /\ undoStack' = undoStack]_vars

\* the second of two opportunities has the new status and the first the
\* status it was saved with; the task that is left has the new status; the
\* undo stack holds the deleted task, with the status it was saved with
C15_Witness ==
    /\ Len(opportunities) = 2 /\ Len(tasks) = 1 /\ Len(undoStack) = 1
    /\ opportunities[1].status = OneForm.status
    /\ opportunities[2].status = "Won"
    /\ tasks[1].status = "Completed"
    /\ undoStack[1].task.status = "Not Started"

\* C16: when the confirmation of deleteOpportunity, deleteTask,
\* bulkDeleteOpportunities or bulkDeleteTasks is declined, the two
\* collections, the two stored blobs, the undo stack and the two selection
\* sets are unchanged.
C16_DeclinedDeleteChangesNothing ==
    [][(\/ \E id \in AllOppIds : deleteOpportunity(id, FALSE)
        \/ \E id \in AllTaskIds : deleteTask(id, FALSE)
        \/ bulkDeleteOpportunities(FALSE)
        \/ bulkDeleteTasks(FALSE)) =>
           /\ UNCHANGED <<opportunities, tasks>>
           /\ UNCHANGED <<storedOpportunities, storedTasks>>
           /\ UNCHANGED undoStack
           /\ UNCHANGED <<selectedOpportunities, selectedTasks>>]_vars

\* a state where each of the four handlers has something to delete and has
\* been declined: both collections hold a selected record and nothing is on
\* the undo stack
C16_Witness ==
    /\ noModal
    /\ \E i \in DOMAIN opportunities :
           opportunities[i] # Undefined
           /\ has(selectedOpportunities, opportunities[i].id)
    /\ \E i \in DOMAIN tasks :
           tasks[i] # Undefined /\ has(selectedTasks, tasks[i].id)
    /\ undoStack = <<>>

\* C17: after every completed mutation of the store the views have been
\* recomputed from the current collections: the kanban board that is on
\* display holds, stage by stage, the cards of the opportunities as they are
\* in the store.
C17_DisplayedBoardIsCurrent ==
    activeTab = "kanban" => kanbanBoard = renderKanbanBoard(opportunities)

\* C18: no view mutates the store: a click on a column header of either
\* table, which sorts and renders the table, and a switch to a tab, which
\* renders its view, leave the opportunities and the tasks collections as
\* they were, contents and element order.
C18_ViewsLeaveStoreUnchanged ==
    [][(\/ \E column \in OppSortColumns : sortOpportunities(column)
        \/ \E column \in TaskSortColumns : sortTasks(column)
        \/ \E tabName \in Tabs : switchTab(tabName)) =>
           UNCHANGED <<opportunities, tasks>>]_vars

Reverse(s) == [i \in DOMAIN s |-> s[Len(s) + 1 - i]]

\* C19: when a table is sorted by column X ascending, a second click on X
\* yields exactly the reverse of that ascending ordering, records with equal
\* values in X included.
C19_SecondClickReverses ==
    [][/\ \A column \in OppSortColumns :
              (/\ opportunitySortColumn = column
               /\ opportunitySortDirection = "asc"
               /\ opportunities = stableSort(opportunities,
                      [i \in DOMAIN opportunities |->
                          oppSortValue(opportunities[i], column)], "asc")
               /\ sortOpportunities(column)) =>
                  opportunities' = Reverse(opportunities)
       /\ \A column \in TaskSortColumns :
              (/\ taskSortColumn = column
               /\ taskSortDirection = "asc"
               /\ tasks = stableSort(tasks,
                      [i \in DOMAIN tasks |-> taskSortValue(tasks[i], column)],
                      "asc")
               /\ sortTasks(column)) =>
                  tasks' = Reverse(tasks)]_vars

Flipped(direction) == IF direction = "asc" THEN "desc" ELSE "asc"

\* C20: a click on the header of the column that is the sort column flips
\* the direction of that table, a click on any other column makes it
\* ascending; a click on a header of one table leaves the sort column and
\* the direction of the other table as they were.
C20_SortDirectionRule ==
    [][/\ \A column \in OppSortColumns :
              sortOpportunities(column) =>
                  /\ opportunitySortColumn' = column
                  /\ opportunitySortDirection' =
                         IF opportunitySortColumn = column
                         THEN Flipped(opportunitySortDirection) ELSE "asc"
                  /\ UNCHANGED <<taskSortColumn, taskSortDirection>>
       /\ \A column \in TaskSortColumns :
              sortTasks(column) =>
                  /\ taskSortColumn' = column
                  /\ taskSortDirection' =
                         IF taskSortColumn = column
                         THEN Flipped(taskSortDirection) ELSE "asc"
                  /\ UNCHANGED <<opportunitySortColumn,
                                 opportunitySortDirection>>]_vars

\* the opportunity table has been clicked twice on name and is descending,
\* with beta CRM before Acme ERP; the task table, clicked on another column,
\* is ascending
C20_Witness ==
    /\ opportunitySortColumn = "name" /\ opportunitySortDirection = "desc"
    /\ taskSortColumn = "status" /\ taskSortDirection = "asc"
    /\ Len(opportunities) = 2 /\ Len(tasks) = 2
    /\ opportunities[1].name = "beta CRM" /\ opportunities[1].id = 2
    /\ opportunities[2].name = "Acme ERP"

\* C21: between operations, when no write has been rejected, the stored
\* 'opportunities' and 'tasks' blobs are the serialization of the
\* collections in memory, element order included.
C21_StoredEqualsMemory ==
    rejects = {} =>
        /\ storedOpportunities = Stringify(opportunities)
        /\ storedTasks = Stringify(tasks)

\* the alert of the save functions' catch branch
SaveAlert == Toast("Unable to save data", 0)

\* C22: when the write of a collection is rejected, the handler keeps its
\* change in memory and runs to its end (the form is closed, the failure is
\* reported by the alert), and the stored blob keeps the value it had; when
\* the write of a collection is accepted, the stored blob equals the
\* collection in memory again.
C22_RejectedWriteKeepsBlob ==
    [][/\ \A form \in {OneForm, RevisedForm} :
              saveOpportunity(form) =>
                  /\ ~opportunityModal'
                  /\ currentEditingOpportunity = NULL =>
                         opportunities' =
                             Append(opportunities, Last(opportunities'))
                  /\ currentEditingOpportunity \in Ids(opportunities) =>
                         \E i \in DOMAIN opportunities' :
                             opportunities'[i].stage = form.stage
                  /\ IF "opportunities" \in rejects
                     THEN /\ storedOpportunities' = storedOpportunities
                          /\ toast' = SaveAlert
                     ELSE storedOpportunities' = Stringify(opportunities')
       /\ \A form \in TaskForms(taskOpportunityOptions) :
              saveTask(form) =>
                  /\ ~taskModal'
                  /\ Len(tasks') = Len(tasks) + 1
                  /\ IF "tasks" \in rejects
                     THEN storedTasks' = storedTasks /\ toast' = SaveAlert
                     ELSE storedTasks' = Stringify(tasks')
       /\ \A id \in Ids(tasks) :
              deleteTask(id, TRUE) =>
                  /\ id \notin Ids(tasks')
                  /\ Len(undoStack') = Len(undoStack) + 1
                  /\ toast' = Toast("Task deleted", 0)
                  /\ IF "tasks" \in rejects
                     THEN storedTasks' = storedTasks
                     ELSE storedTasks' = Stringify(tasks')]_vars

\* the write of the second opportunity was rejected: memory holds two
\* opportunities, storage the one it held before, and the alert is shown
C22_Witness ==
    /\ Len(opportunities) = 2
    /\ storedOpportunities = SubSeq(Stringify(opportunities), 1, 1)
    /\ toast = SaveAlert
    /\ ~opportunityModal

\* C23: the file that exportToJSON writes carries the current version, and
\* importing it with confirmation leaves the opportunities and the tasks
\* collections as they were when it was exported: the same records, field
\* for field, in the same order.
C23_ExportImportRoundTrip ==
    [][importFromJSON(exportedData(opportunities, tasks), TRUE) =>
           /\ exportedData(opportunities, tasks).version = DATA_VERSION
           /\ opportunities' = opportunities
           /\ tasks' = tasks]_vars

\* two opportunities and a task of this session have been exported and
\* imported again
C23_Witness ==
    /\ toast = Toast("Data imported successfully!", 0)
    /\ Len(opportunities) = 2 /\ Len(tasks) = 1
    /\ opportunities[1].id = 2 /\ opportunities[2].id = 1
    /\ tasks[1].opportunityId = 1

\* C24: an import that is aborted, because the file does not parse, because
\* it lacks the opportunities key or the tasks key, or because the user
\* declines the confirmation, leaves the two collections, the two stored
\* blobs and the undo stack exactly as they were.
C24_AbortedImportChangesNothing ==
    [][\A file \in AbortFiles, confirmed \in BOOLEAN :
           (/\ \/ ~file.parses
               \/ "opportunities" \notin file.keys
               \/ "tasks" \notin file.keys
               \/ ~confirmed
            /\ importFromJSON(file, confirmed)) =>
               /\ UNCHANGED <<opportunities, tasks>>
               /\ UNCHANGED <<storedOpportunities, storedTasks>>
               /\ UNCHANGED undoStack]_vars

\* an import has just been rejected while the tracker holds an opportunity
\* and a task of this session and a deleted task on the undo stack
C24_Witness ==
    /\ toast = Toast("Failed to import data", 0)
    /\ Len(opportunities) = 1 /\ opportunities[1].id = 1
    /\ Len(tasks) = 1 /\ tasks[1].id \in 1..MaxTaskIds
    /\ Len(undoStack) = 1

\* C25: when the page loads with a stored version below the current one, the
\* migration loop starts at the stored version and goes up one version at a
\* time to DATA_VERSION - 1; the two collections are persisted only after
\* the loop has ended, and the marker is written only after both were
\* persisted; and after every load that did not fail the marker is "2".
C25_MigrateThenPersistThenMark ==
    /\ [][/\ (load.at = "read" /\ load'.at = "migrate") =>
                /\ load'.v = currentVersionOf(storedVersion)
                /\ load'.v < DATA_VERSION
          /\ (load.at = "migrate" /\ load'.at = "migrate") =>
                load'.v = load.v + 1
          /\ (storedOpportunities' # storedOpportunities
                 \/ storedTasks' # storedTasks) =>
                /\ load.at \in {"saveOpportunities", "saveTasks"}
                /\ load.v = DATA_VERSION
          /\ storedVersion' # storedVersion =>
                /\ load.at = "setVersion"
                /\ storedVersion' = "2"
                /\ storedTasks = Stringify(tasks)
                /\ ("opportunities" \notin rejects =>
                       storedOpportunities = Stringify(opportunities))]_vars
    /\ [](load.at = "ready" /\ ~load.failed => storedVersion = "2")

\* C26: a version marker that is missing or is not a number counts as
\* version 1: the load migrates from version 1, and a load that does not
\* fail leaves a marker that is the current version.
C26_NoVersionMeansVersionOne ==
    /\ [][(/\ load.at = "read"
           /\ storedVersion \in {"null", "abc"}
           /\ ~load'.failed) =>
              load' = [at |-> "migrate", v |-> 1, failed |-> FALSE]]_vars
    /\ [](load.at = "ready" /\ ~load.failed =>
             storedVersion \notin {"null", "abc"})

\* C27: a load that fails leaves both collections empty, never one of them
\* filled and the other empty; and a load that fails on a blob it cannot
\* parse writes none of the three storage keys.
C27_FailedLoadEmptiesBoth ==
    [][(load.at # "ready" /\ load'.failed) =>
           /\ opportunities' = <<>>
           /\ tasks' = <<>>
           /\ (load.at = "read" =>
                  UNCHANGED <<storedOpportunities, storedTasks,
                              storedVersion>>)]_vars

\* the load failed on the tasks blob after the opportunities blob had been
\* parsed: both collections are empty and storage is as it was
C27_Witness ==
    /\ load = LoadFailed
    /\ storedOpportunities = <<BackupOpportunity>>
    /\ storedTasks = Unparseable
    /\ opportunities = <<>> /\ tasks = <<>>

\* C28: closing the opportunity modal or the task modal without saving
\* leaves the two collections, the two stored blobs and the undo stack as
\* they were and clears the editing id of that modal; and a save in a modal
\* whose editing id is clear adds one record at the end of its collection
\* and overwrites none.
C28_CloseDiscardsEdits ==
    [][/\ (opportunityModal /\ closeOpportunityModal) =>
             /\ UNCHANGED <<storeVars, undoStack>>
             /\ currentEditingOpportunity' = NULL
       /\ (taskModal /\ closeTaskModal) =>
             /\ UNCHANGED <<storeVars, undoStack>>
             /\ currentEditingTask' = NULL
       /\ (/\ opportunityModal /\ currentEditingOpportunity = NULL
           /\ opportunities' # opportunities) =>
             /\ Len(opportunities') = Len(opportunities) + 1
             /\ SubSeq(opportunities', 1, Len(opportunities)) = opportunities
       /\ (taskModal /\ currentEditingTask = NULL /\ tasks' # tasks) =>
             /\ Len(tasks') = Len(tasks) + 1
             /\ SubSeq(tasks', 1, Len(tasks)) = tasks]_vars

\* both modals are closed with their editing ids clear, the first
\* opportunity is as it was entered, and a second opportunity and a task
\* were added after it
C28_Witness ==
    /\ noModal
    /\ currentEditingOpportunity = NULL /\ currentEditingTask = NULL
    /\ Len(opportunities) = 2 /\ Len(tasks) = 1
    /\ opportunities[1].stage = OneForm.stage
    /\ opportunities[2].id = 2
    /\ storedOpportunities = Stringify(opportunities)

\* C29: a drop of the card of an opportunity on a column sets the stage of
\* that opportunity and nothing else: its other fields, the other
\* opportunities, the order of the array, the tasks and the undo stack are
\* as before; a drop of a card whose opportunity no longer exists changes
\* no collection, no stored blob and not the undo stack.
C29_DropChangesOnlyStage ==
    [][\A id \in AllOppIds, newStage \in Stages :
           handleDrop(id, newStage) =>
               LET index == findIndex(opportunities, id)
               IN  /\ UNCHANGED <<tasks, storedTasks, undoStack>>
                   /\ Len(opportunities') = Len(opportunities)
                   /\ \A i \in DOMAIN opportunities :
                          i # index => opportunities'[i] = opportunities[i]
                   /\ index # 0 =>
                          /\ opportunities'[index].stage = newStage
                          /\ DOMAIN opportunities'[index] =
                                 DOMAIN opportunities[index]
                          /\ \A field \in DOMAIN opportunities[index] \ {"stage"} :
                                 opportunities'[index][field] =
                                     opportunities[index][field]
                   /\ index = 0 =>
                          UNCHANGED <<opportunities, storedOpportunities>>]_vars

\* the first of two opportunities was dropped on Negotiation: it is still
\* first, with the probability it was entered with, and the task is there
C29_Witness ==
    /\ activeTab = "kanban" /\ noModal
    /\ Len(opportunities) = 2 /\ Len(tasks) = 1
    /\ opportunities[1].id = 1 /\ opportunities[1].stage = "Negotiation"
    /\ opportunities[2].stage # "Negotiation"
    /\ Len(kanbanBoard["Negotiation"]) = 1
    /\ storedOpportunities = Stringify(opportunities)
    /\ undoStack = <<>>

\* the tasks whose due date is the given day of the month, in array order
dueOn(day) ==
    SelectSeq(tasks, LAMBDA task :
        IF task.dueDate = "" THEN FALSE ELSE dayOfMonth(task.dueDate) = day)

\* C30: on the calendar as rendered, the cell of a day shows the names of the
\* first min(n, 3) of the n tasks due that day, in array order, and a
\* '+(n - 3) more' indicator exactly when n > 3; every task due that day is
\* counted in n and no task due another day is.
C30_CellShowsTasksDueThatDay ==
    activeTab = "calendar" =>
        \A day \in Days :
            LET n == Len(dueOn(day))
                shown == IF n < 3 THEN n ELSE 3
            IN  /\ calendarGrid[day].indicators =
                       [i \in 1..shown |-> dueOn(day)[i].taskName]
                /\ calendarGrid[day].more = (IF n > 3 THEN n - 3 ELSE 0)

labelsInCreationOrder(day) ==
    LET due == dueOn(day)
        created == stableSort(due, [i \in DOMAIN due |-> due[i].id], "asc")
        shown == IF Len(due) < 3 THEN Len(due) ELSE 3
    IN  [i \in 1..shown |-> created[i].taskName]

\* C32: whenever the calendar is rendered, whatever sorts, edits, deletes
\* and undos came before, the tasks due on a date appear in the cell of that
\* date in the order in which they were created.
C32_BucketInCreationOrder ==
    [][switchTab("calendar") =>
           \A day \in Days :
               calendarGrid'[day].indicators = labelsInCreationOrder(day)]_vars

\* C33: for the BANT components of every saved opportunity, the total is
\* their sum and the percent is total / 20 * 100; the summary is Hot exactly
\* when the percent is at least 80, Warm exactly when it is at least 55 and
\* below 80, and Cold otherwise; a total of 16 is Hot, of 11 Warm, of 10
\* Cold.
C33_BantTotalPercentSummary ==
    \A i \in DOMAIN opportunities :
        LET o == opportunities[i]
            total == o.bant.budget + o.bant.authority + o.bant.need
                         + o.bant.timeline
        IN  /\ o.bantTotal = total
            /\ o.bantPercent * 20 = total * 100
            /\ o.bantSummary = "Hot" <=> o.bantPercent >= 80
            /\ o.bantSummary = "Warm" <=>
                   (55 <= o.bantPercent /\ o.bantPercent < 80)
            /\ o.bantSummary = "Cold" <=> o.bantPercent < 55
            /\ total = 16 => o.bantSummary = "Hot"
            /\ total = 11 => o.bantSummary = "Warm"
            /\ total = 10 => o.bantSummary = "Cold"

\* an opportunity with scores 5, 5, 5 and 1 was saved: total 16, 80 percent,
\* Hot
C33_Witness ==
    /\ Len(opportunities) = 1
    /\ opportunities[1].bant =
           [budget |-> 5, authority |-> 5, need |-> 5, timeline |-> 1]
    /\ opportunities[1].bantTotal = 16
    /\ opportunities[1].bantPercent = 80
    /\ opportunities[1].bantSummary = "Hot"

blobsSize ==
    (IF "opportunities" \in DOMAIN storageLength
     THEN storageLength["opportunities"] ELSE 0)
        + (IF "tasks" \in DOMAIN storageLength
           THEN storageLength["tasks"] ELSE 0)

\* C35: the capacity check warns exactly when the lengths of the
\* opportunities blob and of the tasks blob, and nothing else, add up to
\* strictly more than 80 percent of 5 MB.
C35_WarningFromBlobsOnly ==
    [][checkStorageQuota =>
           (toast' = StorageWarning <=>
                blobsSize * 100 > 80 * (5 * 1024 * 1024))]_vars

\* C36: deleteOpportunity writes the opportunities blob first and the tasks
\* blob in a second step: when the tab is closed between the two, storage
\* holds the opportunities without the deleted one and the tasks as they
\* were, those of the deleted opportunity included.
C36_CrashBetweenTheWrites ==
    [][\A id \in AllOppIds :
           (id \in Ids(opportunities) /\ crashInDeleteOpportunity(id)) =>
               /\ storedOpportunities' =
                      Stringify(withoutOpportunity(opportunities, id))
               /\ storedTasks' = Stringify(tasks)
               /\ \A i \in DOMAIN tasks :
                      tasks[i].opportunityId = id =>
                          /\ storedTasks'[i] = tasks[i]
                          /\ id \notin Ids(storedOpportunities')]_vars

\* the page was opened again after the crash: a persisted task, now loaded,
\* names an opportunity that is not persisted
C36_Witness ==
    /\ load = Loaded
    /\ Len(storedTasks) >= 1
    /\ tasks = storedTasks
    /\ opportunities = storedOpportunities
    /\ \E i \in DOMAIN storedTasks :
           storedTasks[i].opportunityId \notin Ids(storedOpportunities)

\* C37: while the input events of a search box follow each other by less
\* than 300 ms the debounced recompute does not run; it runs 300 ms after
\* the last event of the burst, and once the timeout has run it has run
\* exactly once for the burst.
C37_OneRecomputeAfterTheBurst ==
    /\ [](\A box \in SearchBoxes :
              LET timer == debounced[box]
              IN  /\ timer.pending => timer.ran = 0
                  /\ timer.since < DebounceDelay =>
                         timer.pending /\ timer.ran = 0
                  /\ (~timer.pending /\ timer.events > 0) => timer.ran = 1)
    /\ [][\A box \in SearchBoxes :
              debounced'[box].ran # debounced[box].ran =>
                  \/ debounced'[box].ran = 0
                  \/ /\ debounced[box].since = DebounceDelay
                     /\ debounced'[box].ran = 1]_vars

\* a burst of three input events in the opportunity search box is over and
\* the recompute has run once, while the timeout of the task search box is
\* still pending
C37_Witness ==
    /\ debounced["opp-search"].events = 3
    /\ ~debounced["opp-search"].pending
    /\ debounced["opp-search"].ran = 1
    /\ debounced["task-search"].pending
    /\ debounced["task-search"].events = 2

\* C38: the success message of bulkUpdateOpportunityStatus reports 0
\* updated opportunities, however many were selected and updated, because it
\* reads the selection after it was cleared; the message of
\* bulkUpdateTaskStatus reports the number of tasks that were selected
\* before the selection was cleared.
C38_BulkUpdateMessageCounts ==
    [][/\ (Len(selectedOpportunities) > 0
              /\ bulkUpdateOpportunityStatus("Won")) =>
             /\ selectedOpportunities' = <<>>
             /\ toast' = Toast("Updated opportunities", 0)
       /\ (Len(selectedTasks) > 0 /\ bulkUpdateTaskStatus("Completed")) =>
             /\ selectedTasks' = <<>>
             /\ toast' = Toast("Updated tasks", Len(selectedTasks))]_vars

\* two opportunities were selected and set to Won: the message says 0
C38_Witness ==
    /\ Len(opportunities) = 2
    /\ opportunities[1].status = "Won" /\ opportunities[2].status = "Won"
    /\ selectedOpportunities = <<>>
    /\ toast = Toast("Updated opportunities", 0)

\* C39: neither collection ever holds an undefined entry: every element of
\* opportunities and of tasks is a record, also after a delete by an id that
\* no record has, followed by undo.
C39_NoUndefinedEntries ==
    /\ \A i \in DOMAIN opportunities : opportunities[i] # Undefined
    /\ \A i \in DOMAIN tasks : tasks[i] # Undefined

\* C40: the selections hold only ids of records that are in their
\* collection: every id in selectedOpportunities is the id of an opportunity
\* and every id in selectedTasks is the id of a task.
C40_SelectionWithinCollection ==
    /\ \A i \in DOMAIN selectedOpportunities :
           selectedOpportunities[i] \in Ids(opportunities)
    /\ \A i \in DOMAIN selectedTasks : selectedTasks[i] \in Ids(tasks)

====
